---- MODULE Spec2Model ----
(***************************************************************************)
(* Board/task tree of the kanban application (src/src/App.js): its         *)
(* drag-and-drop relocation protocol, its editing handlers, and its        *)
(* persistence (src/src/storage.js and the Electron main process).         *)
(*                                                                         *)
(* The state is the React state of KanbanApp (the boards tree, the         *)
(* loading flag and the two drag payloads), what the array that was boards *)
(* reads after the last handler, the stores that hold the key              *)
(* 'kanbanBoards', the saveData calls of the run, the browser's drag data  *)
(* store and the phase of the drag gesture, and a record of the handler    *)
(* that ran last with the path on which it returned.  Every handler is one *)
(* action.                                                                 *)
(***************************************************************************)
EXTENDS Integers, Sequences, FiniteSets, TLC

VARIABLES boards, prevBoards, isLoading, stored, calls, dragging, draggingBoard,
          dataTransfer, gesture, last

vars == <<boards, prevBoards, isLoading, stored, calls, dragging, draggingBoard,
         dataTransfer, gesture, last>>

(***************************************************************************)
(* Bounds of the model.                                                    *)
(***************************************************************************)
MaxTasks == 3        \* addNewTask is offered while the forest holds fewer tasks
MaxBoards == 3       \* addNewBoard is offered while there are fewer boards
MaxColorIndex == 0   \* Math.random() selects palette entries 0..MaxColorIndex
MaxEdits == 1        \* an edit is offered while fewer values differ from a fresh tree
MaxCalls == 2        \* a tree is committed while fewer saves were issued

(***************************************************************************)
(* JavaScript values.                                                      *)
(***************************************************************************)
null == "null"
EmptyString == ""

\* The values Date.now() may return, as they appear inside template strings:
\* two calls read the same millisecond or different ones.
DateNow == { "1762000000000", "1762000000001" }

\* An id that no board or task ever has (a stale reference).
AbsentBoardId == "board-0"
AbsentTaskId == "task-0"

randomBoardColors ==
  << "bg-red-500", "bg-orange-500", "bg-amber-500", "bg-yellow-500", "bg-lime-500",
     "bg-green-500", "bg-emerald-500", "bg-teal-500", "bg-cyan-500", "bg-sky-500",
     "bg-blue-500", "bg-indigo-500", "bg-violet-500", "bg-purple-500", "bg-fuchsia-500",
     "bg-pink-500", "bg-rose-500", "bg-gray-500", "bg-slate-500", "bg-zinc-500" >>

(***************************************************************************)
(* The default tree.                                                       *)
(***************************************************************************)
Task1 ==
  [ id |-> "task-1",
    title |-> "Research task management solutions",
    description |-> "Look into existing apps and identify key features",
    dueDate |-> "2025-05-20",
    priority |-> "high",
    tags |-> << "research", "planning" >>,
    subtasks |-> << >>,
    content |-> << [type |-> "bullet", text |-> "Check user reviews"],
                   [type |-> "bullet", text |-> "Compare pricing models"] >> ]

DefaultBoards ==
  << [id |-> "board-1", title |-> "To Do", color |-> "bg-red-500", order |-> 0,
      tasks |-> << Task1 >>],
     [id |-> "board-2", title |-> "In Progress", color |-> "bg-yellow-500", order |-> 1,
      tasks |-> << >>],
     [id |-> "board-3", title |-> "Done", color |-> "bg-green-500", order |-> 2,
      tasks |-> << >>] >>

(***************************************************************************)
(* Array helpers.                                                          *)
(***************************************************************************)
\* findIndex with a fault: a missing id yields the first index, not -1.
FindIndex_MissingIsFirst(arr, id) ==
  IF \E i \in DOMAIN arr : arr[i].id = id
    THEN CHOOSE i \in DOMAIN arr : arr[i].id = id /\ \A j \in 1..(i - 1) : arr[j].id # id
    ELSE 1

\* Array.prototype.findIndex(x => x.id === id): 1-based here, 0 for -1.
FindIndex(arr, id) ==
  IF \E i \in DOMAIN arr : arr[i].id = id
    THEN CHOOSE i \in DOMAIN arr : arr[i].id = id /\ \A j \in 1..(i - 1) : arr[j].id # id
    ELSE 0

\* arr.splice(i, 1): the array without its i-th element.
SpliceOut(arr, i) == SubSeq(arr, 1, i - 1) \o SubSeq(arr, i + 1, Len(arr))

\* arr.splice(i, 0, x): x inserted so that it becomes the i-th element; an
\* index past the end appends.
SpliceIn(arr, i, x) ==
  IF i > Len(arr) THEN Append(arr, x)
  ELSE SubSeq(arr, 1, i - 1) \o << x >> \o SubSeq(arr, i, Len(arr))

(***************************************************************************)
(* JSON.parse(JSON.stringify(v)) on the tree: every own property of every  *)
(* board and task is written and read back.  All of them hold strings,     *)
(* numbers, booleans or arrays of such, which JSON represents exactly.     *)
(***************************************************************************)
RECURSIVE JSONCloneTasks(_)
JSONCloneTasks(tasks) ==
  [ i \in DOMAIN tasks |->
      [ id |-> tasks[i].id,
        title |-> tasks[i].title,
        description |-> tasks[i].description,
        dueDate |-> tasks[i].dueDate,
        priority |-> tasks[i].priority,
        tags |-> [ k \in DOMAIN tasks[i].tags |-> tasks[i].tags[k] ],
        subtasks |-> JSONCloneTasks(tasks[i].subtasks),
        content |-> [ k \in DOMAIN tasks[i].content |->
                        [ type |-> tasks[i].content[k].type,
                          text |-> tasks[i].content[k].text ] ] ] ]

JSONClone(bs) ==
  [ i \in DOMAIN bs |->
      [ id |-> bs[i].id,
        title |-> bs[i].title,
        color |-> bs[i].color,
        order |-> bs[i].order,
        tasks |-> JSONCloneTasks(bs[i].tasks) ] ]

(***************************************************************************)
(* Recursive helpers of handleTaskDrop and deleteTask.                     *)
(***************************************************************************)
\* findAndRemoveTask: the first task with the id, in pre-order, is spliced
\* out of the list that holds it.  found = FALSE stands for the null result.
RECURSIVE findAndRemoveTask(_, _)
RECURSIVE findAndRemoveFrom(_, _, _)
findAndRemoveFrom(boardTasks, taskId, i) ==
  IF i > Len(boardTasks)
    THEN [found |-> FALSE, task |-> null, tasks |-> boardTasks]
  ELSE IF boardTasks[i].id = taskId
    THEN [found |-> TRUE, task |-> boardTasks[i], tasks |-> SpliceOut(boardTasks, i)]
  ELSE LET fromSubtasks == findAndRemoveTask(boardTasks[i].subtasks, taskId) IN
    IF fromSubtasks.found
      THEN [found |-> TRUE, task |-> fromSubtasks.task,
            tasks |-> [boardTasks EXCEPT ![i].subtasks = fromSubtasks.tasks]]
      ELSE findAndRemoveFrom(boardTasks, taskId, i + 1)

findAndRemoveTask(boardTasks, taskId) == findAndRemoveFrom(boardTasks, taskId, 1)

\* addSubtask: newSubtask is pushed onto the subtasks of the first task with
\* id parentId, in pre-order; found = FALSE when there is none.
RECURSIVE addSubtask(_, _, _)
RECURSIVE addSubtaskFrom(_, _, _, _)
addSubtaskFrom(tasks, parentId, newSubtask, i) ==
  IF i > Len(tasks)
    THEN [found |-> FALSE, tasks |-> tasks]
  ELSE IF tasks[i].id = parentId
    THEN [found |-> TRUE,
          tasks |-> [tasks EXCEPT ![i].subtasks = Append(@, newSubtask)]]
  ELSE LET inner == addSubtask(tasks[i].subtasks, parentId, newSubtask) IN
    IF inner.found
      THEN [found |-> TRUE, tasks |-> [tasks EXCEPT ![i].subtasks = inner.tasks]]
      ELSE addSubtaskFrom(tasks, parentId, newSubtask, i + 1)

addSubtask(tasks, parentId, newSubtask) == addSubtaskFrom(tasks, parentId, newSubtask, 1)

\* removeTask of deleteTask: splices out the first task with the id.
RECURSIVE removeTask(_, _)
RECURSIVE removeTaskFrom(_, _, _)
removeTaskFrom(tasks, taskId, i) ==
  IF i > Len(tasks)
    THEN [found |-> FALSE, tasks |-> tasks]
  ELSE IF tasks[i].id = taskId
    THEN [found |-> TRUE, tasks |-> SpliceOut(tasks, i)]
  ELSE LET inner == removeTask(tasks[i].subtasks, taskId) IN
    IF inner.found
      THEN [found |-> TRUE, tasks |-> [tasks EXCEPT ![i].subtasks = inner.tasks]]
      ELSE removeTaskFrom(tasks, taskId, i + 1)

removeTask(tasks, taskId) == removeTaskFrom(tasks, taskId, 1)

(***************************************************************************)
(* What is rendered, and so what the handlers can be called with.          *)
(***************************************************************************)
\* All tasks of a forest in pre-order (renderTask visits them in this order).
RECURSIVE Flatten(_)
Flatten(tasks) ==
  IF tasks = << >> THEN << >>
  ELSE << Head(tasks) >> \o Flatten(Head(tasks).subtasks) \o Flatten(Tail(tasks))

RECURSIVE FlattenBoards(_)
FlattenBoards(bs) ==
  IF bs = << >> THEN << >> ELSE Flatten(Head(bs).tasks) \o FlattenBoards(Tail(bs))

Range(seq) == { seq[i] : i \in DOMAIN seq }

BoardIds(bs) == { bs[i].id : i \in DOMAIN bs }
TaskIds(bs) == { t.id : t \in Range(FlattenBoards(bs)) }

BoardArgs == BoardIds(boards) \cup {AbsentBoardId}

\* renderTask(task, boardId, isSubtask, parentTaskId): the cards of a list of
\* tasks, each with the arguments its handlers are bound to.
RECURSIVE renderTask(_, _, _, _)
renderTask(tasks, boardId, isSubtask, parentTaskId) ==
  UNION { { [boardId |-> boardId, taskId |-> tasks[i].id,
             isSubtask |-> isSubtask, parentTaskId |-> parentTaskId] }
          \cup renderTask(tasks[i].subtasks, boardId, TRUE, tasks[i].id)
          : i \in DOMAIN tasks }

\* The task cards on screen.
Cards == UNION { renderTask(boards[i].tasks, boards[i].id, FALSE, null) : i \in DOMAIN boards }

\* The targets handleTaskDrop is wired to: the onDrop of a card, and the
\* onDrop of a board container (handleTaskDrop's targetTaskId is then null).
DropTargets ==
  { [boardId |-> card.boardId, taskId |-> card.taskId] : card \in Cards }
  \cup { [boardId |-> boardId, taskId |-> null] : boardId \in BoardArgs }

\* A card that is no longer on screen: its task id is in no board.
StaleCards == { [boardId |-> boardId, taskId |-> AbsentTaskId,
                 isSubtask |-> FALSE, parentTaskId |-> null] : boardId \in BoardArgs }

\* const sortedBoards = [...boards].sort((a, b) => (a.order || 0) - (b.order || 0)):
\* the sort is stable, boards of equal order keep their array sequence.
InsertByOrder(sorted, board) ==
  LET at == Cardinality({ i \in DOMAIN sorted : sorted[i].order <= board.order }) + 1
  IN SpliceIn(sorted, at, board)

RECURSIVE SortByOrder(_)
SortByOrder(bs) ==
  IF bs = << >> THEN << >>
  ELSE InsertByOrder(SortByOrder(SubSeq(bs, 1, Len(bs) - 1)), bs[Len(bs)])

sortedBoards == SortByOrder(boards)

(***************************************************************************)
(* State after the first render.                                           *)
(***************************************************************************)
NoDrag == << >>
NoData == [type |-> EmptyString, data |-> EmptyString]

\* e.dataTransfer.getData(format): the empty string when nothing was set
\* under that format.
getData(format) == IF dataTransfer.type = format THEN dataTransfer.data ELSE EmptyString

Returned(op, path) == [op |-> op, path |-> path]

(***************************************************************************)
(* The stores.  stored holds what is under the key 'kanbanBoards' in       *)
(* localStorage and in the data file of the Electron main process, and     *)
(* whether the storage helper found Electron's IPC when it was             *)
(* constructed.  An item is absent, a text JSON.parse rejects, or the JSON *)
(* text of a value.                                                        *)
(***************************************************************************)
NoItem == [kind |-> "none"]
CorruptItem == [kind |-> "corrupt"]

\* JSON.stringify(value, null, space): the text of what JSON keeps of the
\* value, with its indentation.
JSONStringify(value, space) == [kind |-> "json", space |-> space, json |-> JSONClone(value)]

\* JSON.parse(text) of a JSON text: indentation is not part of the value.
JSONParse(item) == item.json

\* The save effect with a fault: it writes the tree of the render in which
\* the handler was created, not the tree passed to setBoards.
SaveEffect_StaleClosure(newBoards) ==
  stored' = [stored EXCEPT !.localStorage = JSONStringify(boards, 0)]

\* useEffect(..., [boards]): every setBoards is followed by the write of the
\* whole tree under the key 'kanbanBoards'.
SaveEffect(newBoards) ==
  stored' = [stored EXCEPT !.localStorage = JSONStringify(newBoards, 0)]

Init ==
  /\ boards = DefaultBoards
  /\ prevBoards = DefaultBoards
  /\ isLoading = FALSE
  /\ stored = [isElectron |-> FALSE,
               localStorage |-> JSONStringify(DefaultBoards, 0),
               file |-> NoItem]
  /\ calls = << >>
  /\ dragging = NoDrag
  /\ draggingBoard = null
  /\ dataTransfer = NoData
  /\ gesture = "none"
  /\ last = Returned("mount", "rendered")

(***************************************************************************)
(* Board drag handlers.                                                    *)
(***************************************************************************)
handleBoardDragStart(boardId) ==
  /\ gesture = "none"
  /\ draggingBoard' = boardId
  /\ dataTransfer' = [type |-> "board/id", data |-> boardId]
  /\ gesture' = "dragging"
  /\ last' = Returned("handleBoardDragStart", "started")
  /\ UNCHANGED <<boards, stored, dragging, isLoading, calls>>
  /\ prevBoards' = boards

handleBoardDragEnd ==
  /\ gesture # "none"
  /\ dataTransfer.type = "board/id"
  /\ draggingBoard' = null
  /\ dataTransfer' = NoData
  /\ gesture' = "none"
  /\ last' = Returned("handleBoardDragEnd", "ended")
  /\ UNCHANGED <<boards, stored, dragging, isLoading, calls>>
  /\ prevBoards' = boards

\* The reorder with a fault: the order values are not reassigned.
ReorderBoards_KeepsOrder(bs, draggedBoardIndex, targetBoardIndex) ==
  SpliceIn(SpliceOut(bs, draggedBoardIndex), targetBoardIndex, bs[draggedBoardIndex])

\* The reorder with a fault: the dragged board is put immediately before the
\* target board, also when it comes from before the target.
ReorderBoards_BeforeTarget(bs, draggedBoardIndex, targetBoardIndex) ==
  LET at == IF draggedBoardIndex < targetBoardIndex
              THEN targetBoardIndex - 1 ELSE targetBoardIndex
      spliced == SpliceIn(SpliceOut(bs, draggedBoardIndex), at, bs[draggedBoardIndex])
  IN [ i \in DOMAIN spliced |-> [spliced[i] EXCEPT !.order = i - 1] ]

\* newBoards.splice(draggedBoardIndex, 1); newBoards.splice(targetBoardIndex,
\* 0, draggedBoard); then board.order = index for every board.
ReorderBoards(bs, draggedBoardIndex, targetBoardIndex) ==
  LET spliced == SpliceIn(SpliceOut(bs, draggedBoardIndex), targetBoardIndex,
                          bs[draggedBoardIndex])
  IN [ i \in DOMAIN spliced |-> [spliced[i] EXCEPT !.order = i - 1] ]

\* The array that was boards when handleBoardDrop was called, read after it:
\* newBoards = [...boards] holds the same board objects, so board.order =
\* index wrote the new indexes into them; the old array keeps its sequence.
Renumbered(bs, draggedBoardIndex, targetBoardIndex) ==
  LET indexes == [ i \in DOMAIN bs |-> i ]
      spliced == SpliceIn(SpliceOut(indexes, draggedBoardIndex), targetBoardIndex,
                          draggedBoardIndex)
      indexOf(i) == CHOOSE index \in DOMAIN spliced : spliced[index] = i
  IN [ i \in DOMAIN bs |-> [bs[i] EXCEPT !.order = indexOf(i) - 1] ]

handleBoardDrop(targetBoardId) ==
  /\ gesture = "dragging"
  /\ gesture' = "dropped"
  /\ UNCHANGED <<isLoading, calls, dragging, dataTransfer>>
  /\ IF draggingBoard = null
       THEN /\ last' = Returned("handleBoardDrop", "not-dragging")
            /\ UNCHANGED <<boards, stored, draggingBoard>> /\ prevBoards' = boards
     ELSE LET sourceBoardId == getData("board/id") IN
       IF sourceBoardId = EmptyString \/ sourceBoardId = targetBoardId
         THEN /\ draggingBoard' = null
              /\ last' = Returned("handleBoardDrop", "same-board")
              /\ UNCHANGED <<boards, stored>> /\ prevBoards' = boards
       ELSE LET draggedBoardIndex == FindIndex(boards, sourceBoardId)
                targetBoardIndex == FindIndex(boards, targetBoardId) IN
         IF draggedBoardIndex = 0 \/ targetBoardIndex = 0
           THEN /\ draggingBoard' = null
                /\ last' = Returned("handleBoardDrop", "board-not-found")
                /\ UNCHANGED <<boards, stored>> /\ prevBoards' = boards
         ELSE LET newBoards == ReorderBoards(boards, draggedBoardIndex, targetBoardIndex) IN
                /\ boards' = newBoards
                /\ SaveEffect(newBoards)
                /\ prevBoards' = Renumbered(boards, draggedBoardIndex, targetBoardIndex)
                /\ draggingBoard' = null
                /\ last' = Returned("handleBoardDrop", "setBoards")

(***************************************************************************)
(* Task drag handlers.                                                     *)
(***************************************************************************)
handleTaskDragStart(boardId, taskId, isSubtask, parentTaskId) ==
  /\ gesture = "none"
  /\ LET dragData == [boardId |-> boardId, taskId |-> taskId,
                      isSubtask |-> isSubtask, parentTaskId |-> parentTaskId] IN
       /\ dragging' = << dragData >>
       /\ dataTransfer' = [type |-> "application/json", data |-> dragData]
  /\ gesture' = "dragging"
  /\ last' = Returned("handleTaskDragStart", "started")
  /\ UNCHANGED <<boards, stored, draggingBoard, isLoading, calls>>
  /\ prevBoards' = boards

handleTaskDragEnd ==
  /\ gesture # "none"
  /\ dataTransfer.type = "application/json"
  /\ dragging' = NoDrag
  /\ dataTransfer' = NoData
  /\ gesture' = "none"
  /\ last' = Returned("handleTaskDragEnd", "ended")
  /\ UNCHANGED <<boards, stored, draggingBoard, isLoading, calls>>
  /\ prevBoards' = boards

\* InsertMoved with a fault: the task arrives without its subtasks.
InsertMoved_WithoutSubtasks(newBoards, targetBoardIndex, targetTaskId, taskToMove) ==
  LET bare == [taskToMove EXCEPT !.subtasks = << >>] IN
  IF targetTaskId # null
    THEN [newBoards EXCEPT ![targetBoardIndex].tasks = addSubtask(@, targetTaskId, bare).tasks]
    ELSE [newBoards EXCEPT ![targetBoardIndex].tasks = Append(@, bare)]

\* The tree handleTaskDrop passes to setBoards once the source task was
\* removed and the target board found: the task is pushed onto the target
\* task's subtasks (the result of addSubtask is not looked at) or onto the
\* target board's tasks.
InsertMoved(newBoards, targetBoardIndex, targetTaskId, taskToMove) ==
  IF targetTaskId # null
    THEN [newBoards EXCEPT ![targetBoardIndex].tasks =
            addSubtask(@, targetTaskId, taskToMove).tasks]
    ELSE [newBoards EXCEPT ![targetBoardIndex].tasks = Append(@, taskToMove)]

\* The test with a fault: a drop on the dragged card itself is not noticed.
DroppedOnItself_Never(targetTaskId, sourceTaskId) == FALSE

\* if (targetTaskId === sourceTaskId) return;
DroppedOnItself(targetTaskId, sourceTaskId) == targetTaskId = sourceTaskId

handleTaskDrop(targetBoardId, targetTaskId) ==
  /\ gesture = "dragging"
  /\ gesture' = "dropped"
  /\ UNCHANGED <<isLoading, calls, dragging, draggingBoard, dataTransfer>>
  /\ IF dragging = NoDrag
       THEN /\ last' = Returned("handleTaskDrop", "not-dragging")
            /\ UNCHANGED <<boards, stored>> /\ prevBoards' = boards
     ELSE LET jsonData == getData("application/json") IN
       IF dataTransfer.type # "application/json"
         THEN /\ last' = Returned("handleTaskDrop", "no-data")
              /\ UNCHANGED <<boards, stored>> /\ prevBoards' = boards
       ELSE LET sourceBoardId == jsonData.boardId
                sourceTaskId == jsonData.taskId IN
         IF DroppedOnItself(targetTaskId, sourceTaskId)
           THEN /\ last' = Returned("handleTaskDrop", "same-task")
                /\ UNCHANGED <<boards, stored>> /\ prevBoards' = boards
         ELSE LET cloned == JSONClone(boards)
                  sourceBoardIndex == FindIndex(cloned, sourceBoardId) IN
           IF sourceBoardIndex = 0
             THEN /\ last' = Returned("handleTaskDrop", "source-board-not-found")
                  /\ UNCHANGED <<boards, stored>> /\ prevBoards' = boards
           ELSE LET removal == findAndRemoveTask(cloned[sourceBoardIndex].tasks, sourceTaskId)
                    newBoards == [cloned EXCEPT ![sourceBoardIndex].tasks = removal.tasks]
                    targetBoardIndex == FindIndex(newBoards, targetBoardId) IN
             IF ~removal.found
               THEN /\ last' = Returned("handleTaskDrop", "task-not-found")
                    /\ UNCHANGED <<boards, stored>> /\ prevBoards' = boards
             ELSE IF targetBoardIndex = 0
               THEN /\ last' = Returned("handleTaskDrop", "target-board-not-found")
                    /\ UNCHANGED <<boards, stored>> /\ prevBoards' = boards
             ELSE LET result == InsertMoved(newBoards, targetBoardIndex, targetTaskId,
                                            removal.task) IN
                    /\ boards' = result
                    /\ SaveEffect(result)
                    /\ prevBoards' = boards
                    /\ last' = Returned("handleTaskDrop", "setBoards")

(***************************************************************************)
(* Board and task operations.                                              *)
(***************************************************************************)
\* window.confirm decides whether anything happens.
deleteBoard(boardId, confirmed) ==
  /\ gesture = "none"
  /\ IF confirmed
       THEN LET newBoards == SelectSeq(boards, LAMBDA board : board.id # boardId) IN
              /\ boards' = newBoards
              /\ SaveEffect(newBoards)
              /\ prevBoards' = boards
              /\ last' = Returned("deleteBoard", "setBoards")
       ELSE /\ last' = Returned("deleteBoard", "cancelled")
            /\ UNCHANGED <<boards, stored>> /\ prevBoards' = boards
  /\ UNCHANGED <<isLoading, calls, dragging, draggingBoard, dataTransfer, gesture>>

deleteTask(boardId, taskId) ==
  /\ gesture = "none"
  /\ LET boardIndex == FindIndex(boards, boardId)
         removal == IF boardIndex # 0 THEN removeTask(boards[boardIndex].tasks, taskId)
                    ELSE [found |-> FALSE, tasks |-> << >>]
         newBoards == IF boardIndex # 0
                        THEN [boards EXCEPT ![boardIndex].tasks = removal.tasks]
                        ELSE boards IN
       /\ boards' = newBoards
       /\ SaveEffect(newBoards)
       /\ prevBoards' = newBoards
       /\ last' = Returned("deleteTask", IF removal.found THEN "removed" ELSE "not-found")
  /\ UNCHANGED <<isLoading, calls, dragging, draggingBoard, dataTransfer, gesture>>

\* The new board with a fault: its order is one more than the last board's.
newBoard_OrderAfterLast(now, random) ==
  [id |-> "board-" \o now, title |-> "New Board",
   color |-> randomBoardColors[random + 1],
   order |-> IF boards = << >> THEN 0 ELSE boards[Len(boards)].order + 1,
   tasks |-> << >>]

\* const newBoard = { id: `board-${Date.now()}`, ..., order: boards.length, tasks: [] }
newBoard(now, random) ==
  [id |-> "board-" \o now, title |-> "New Board",
   color |-> randomBoardColors[random + 1],
   order |-> Len(boards), tasks |-> << >>]

addNewBoard(now, random) ==
  /\ gesture = "none"
  /\ Len(boards) < MaxBoards
  /\ LET newBoards == Append(boards, newBoard(now, random)) IN
       /\ boards' = newBoards
       /\ SaveEffect(newBoards)
       /\ prevBoards' = boards
  /\ last' = Returned("addNewBoard", "setBoards")
  /\ UNCHANGED <<isLoading, calls, dragging, draggingBoard, dataTransfer, gesture>>

\* The new task with a fault: it is born with the seed task's due date.
newTask_WithDueDate(now) ==
  [id |-> "task-" \o now, title |-> "New Task",
   description |-> "Add description here", dueDate |-> Task1.dueDate,
   priority |-> "medium", tags |-> << >>, subtasks |-> << >>, content |-> << >>]

\* const newTask = { id: `task-${Date.now()}`, title: 'New Task', ... }
newTask(now) ==
  [id |-> "task-" \o now, title |-> "New Task",
   description |-> "Add description here", dueDate |-> EmptyString,
   priority |-> "medium", tags |-> << >>, subtasks |-> << >>, content |-> << >>]

addNewTask(boardId, now) ==
  /\ gesture = "none"
  /\ Len(FlattenBoards(boards)) < MaxTasks
  /\ LET boardIndex == FindIndex(boards, boardId)
         newBoards == IF boardIndex # 0
                        THEN [boards EXCEPT ![boardIndex].tasks = Append(@, newTask(now))]
                        ELSE boards IN
       /\ boards' = newBoards
       /\ SaveEffect(newBoards)
       /\ prevBoards' = newBoards
       /\ last' = Returned("addNewTask", IF boardIndex # 0 THEN "pushed" ELSE "board-not-found")
  /\ UNCHANGED <<isLoading, calls, dragging, draggingBoard, dataTransfer, gesture>>

(***************************************************************************)
(* Editing a task.                                                         *)
(*                                                                         *)
(* Every editing handler copies the boards array, looks the board up by    *)
(* id, walks that board's tasks depth first to the first task with the     *)
(* given id, changes it in place and calls setBoards.  The handlers differ *)
(* in the change only, which is a record here.                             *)
(***************************************************************************)
\* String(n).padStart(2, '0')
PadStart2(n) == IF n < 10 THEN "0" \o ToString(n) ELSE ToString(n)

\* `${year}-${String(month + 1).padStart(2, '0')}-${String(day).padStart(2, '0')}`
DateStr(year, month, day) ==
  ToString(year) \o "-" \o PadStart2(month + 1) \o "-" \o PadStart2(day)

\* Array.prototype.splice(start, 1) with a start of any sign: a negative start
\* counts from the end, a start past the end removes nothing.
Splice(arr, start) ==
  LET actualStart == IF start < 0
                       THEN (IF Len(arr) + start < 0 THEN 0 ELSE Len(arr) + start)
                       ELSE (IF start > Len(arr) THEN Len(arr) ELSE start)
  IN IF actualStart < Len(arr) THEN SpliceOut(arr, actualStart + 1) ELSE arr

\* content.push({ type, text: type === 'bullet' ? 'New bullet point' : 'New numbered item' })
NewContentItem(contentType) ==
  [type |-> contentType,
   text |-> IF contentType = "bullet" THEN "New bullet point" ELSE "New numbered item"]

\* tasks[i].content[index] is undefined when index is not an index of the
\* array, and the assignment to its text property throws a TypeError.
Throws(task, change) ==
  change.op = "text" /\ (change.index + 1) \notin DOMAIN task.content

\* The statement executed on the task that was found.
Changed(task, change) ==
  CASE change.op = "set" -> [task EXCEPT ![change.field] = change.value]
    [] change.op = "push" -> [task EXCEPT !.content = Append(@, NewContentItem(change.type))]
    [] change.op = "splice" -> [task EXCEPT !.content = Splice(@, change.index)]
    [] change.op = "text" -> [task EXCEPT !.content[change.index + 1].text = change.text]

\* The walk with a fault: it looks at the tasks of one level only.
RECURSIVE updateTaskIn_TopLevelOnly(_, _, _, _)
updateTaskIn_TopLevelOnly(tasks, targetId, change, i) ==
  IF i > Len(tasks)
    THEN [found |-> FALSE, threw |-> FALSE, tasks |-> tasks]
  ELSE IF tasks[i].id = targetId
    THEN IF Throws(tasks[i], change)
           THEN [found |-> TRUE, threw |-> TRUE, tasks |-> tasks]
           ELSE [found |-> TRUE, threw |-> FALSE,
                 tasks |-> [tasks EXCEPT ![i] = Changed(@, change)]]
  ELSE updateTaskIn_TopLevelOnly(tasks, targetId, change, i + 1)

\* for (i ...) { if (tasks[i].id === targetId) { <change>; return true; }
\*               if (update(tasks[i].subtasks, targetId, ...)) return true; }
\* return false;
RECURSIVE updateTaskIn(_, _, _, _)
updateTaskIn(tasks, targetId, change, i) ==
  IF i > Len(tasks)
    THEN [found |-> FALSE, threw |-> FALSE, tasks |-> tasks]
  ELSE IF tasks[i].id = targetId
    THEN IF Throws(tasks[i], change)
           THEN [found |-> TRUE, threw |-> TRUE, tasks |-> tasks]
           ELSE [found |-> TRUE, threw |-> FALSE,
                 tasks |-> [tasks EXCEPT ![i] = Changed(@, change)]]
  ELSE LET inner == updateTaskIn(tasks[i].subtasks, targetId, change, 1) IN
    IF inner.found
      THEN [found |-> TRUE, threw |-> inner.threw,
            tasks |-> [tasks EXCEPT ![i].subtasks = inner.tasks]]
      ELSE updateTaskIn(tasks, targetId, change, i + 1)

\* The body the editing handlers share.  An exception leaves the handler
\* before setBoards; nothing was assigned before it was thrown.
EditTask(op, boardId, taskId, change) ==
  /\ gesture = "none"
  /\ LET boardIndex == FindIndex(boards, boardId)
         update == IF boardIndex # 0
                     THEN updateTaskIn(boards[boardIndex].tasks, taskId, change, 1)
                     ELSE [found |-> FALSE, threw |-> FALSE, tasks |-> << >>]
         newBoards == IF boardIndex # 0
                        THEN [boards EXCEPT ![boardIndex].tasks = update.tasks]
                        ELSE boards IN
       IF update.threw
         THEN /\ last' = Returned(op, "TypeError")
              /\ UNCHANGED <<boards, stored>> /\ prevBoards' = boards
         ELSE /\ boards' = newBoards
              /\ SaveEffect(newBoards)
              /\ prevBoards' = newBoards
              /\ last' = Returned(op, IF update.found THEN "updated" ELSE "not-found")
  /\ UNCHANGED <<isLoading, calls, dragging, draggingBoard, dataTransfer, gesture>>

updateTaskTitle(boardId, taskId, newTitle) ==
  EditTask("updateTaskTitle", boardId, taskId,
           [op |-> "set", field |-> "title", value |-> newTitle])

\* The onChange handler of the description textarea.
updateTaskDescription(boardId, taskId, newDescription) ==
  EditTask("updateTaskDescription", boardId, taskId,
           [op |-> "set", field |-> "description", value |-> newDescription])

setDueDate(taskId, boardId, date) ==
  EditTask("setDueDate", boardId, taskId,
           [op |-> "set", field |-> "dueDate", value |-> date])

updateTaskPriority(boardId, taskId, priority) ==
  EditTask("updateTaskPriority", boardId, taskId,
           [op |-> "set", field |-> "priority", value |-> priority])

addContentItem(taskId, boardId, type) ==
  EditTask("addContentItem", boardId, taskId, [op |-> "push", type |-> type])

deleteContentItem(taskId, boardId, contentIndex) ==
  EditTask("deleteContentItem", boardId, taskId,
           [op |-> "splice", index |-> contentIndex])

\* The onChange handler of a content item's text input.
updateTaskContent(boardId, taskId, index, newText) ==
  EditTask("updateTaskContent", boardId, taskId,
           [op |-> "text", index |-> index, text |-> newText])

(***************************************************************************)
(* Editing a board.                                                        *)
(***************************************************************************)
\* The colours of the board menu (first release of the component).
boardColors ==
  << "bg-red-500", "bg-yellow-500", "bg-green-500", "bg-blue-500",
     "bg-indigo-500", "bg-purple-500", "bg-pink-500", "bg-gray-500" >>

updateBoardTitle(boardId, newTitle) ==
  /\ gesture = "none"
  /\ LET boardIndex == FindIndex(boards, boardId)
         newBoards == IF boardIndex # 0
                        THEN [boards EXCEPT ![boardIndex].title = newTitle]
                        ELSE boards IN
       /\ boards' = newBoards
       /\ SaveEffect(newBoards)
       /\ prevBoards' = newBoards
       /\ last' = Returned("updateBoardTitle",
                           IF boardIndex # 0 THEN "updated" ELSE "board-not-found")
  /\ UNCHANGED <<isLoading, calls, dragging, draggingBoard, dataTransfer, gesture>>

\* newBoards[boardIndex].color = newColor is not guarded: with findIndex's -1
\* newBoards[-1] is undefined and the assignment throws a TypeError.
updateBoardColor(boardId, newColor) ==
  /\ gesture = "none"
  /\ LET boardIndex == FindIndex(boards, boardId) IN
       IF boardIndex = 0
         THEN /\ last' = Returned("updateBoardColor", "TypeError")
              /\ UNCHANGED <<boards, stored>> /\ prevBoards' = boards
         ELSE LET newBoards == [boards EXCEPT ![boardIndex].color = newColor] IN
                /\ boards' = newBoards
                /\ SaveEffect(newBoards)
                /\ prevBoards' = newBoards
                /\ last' = Returned("updateBoardColor", "updated")
  /\ UNCHANGED <<isLoading, calls, dragging, draggingBoard, dataTransfer, gesture>>

(***************************************************************************)
(* The storage helper (src/src/storage.js) and the main process behind it. *)
(* The faults of a call are what the platform makes fail in it: "invoke"   *)
(* (the IPC call rejects: the main process could not write or read the     *)
(* file), "setItem" (localStorage is full) and "getItem" (localStorage is  *)
(* not accessible).  A load returns found = FALSE for null.                *)
(***************************************************************************)
Faults == { "invoke", "setItem", "getItem" }

saveToLocalStorage(st, data, faults) ==
  IF "setItem" \in faults
    THEN [stored |-> st, result |-> FALSE, path |-> "localStorage-failed"]
    ELSE [stored |-> [st EXCEPT !.localStorage = JSONStringify(data, 0)],
          result |-> TRUE, path |-> "localStorage"]

loadFromLocalStorage(st, faults) ==
  IF "getItem" \in faults THEN [found |-> FALSE, value |-> << >>, path |-> "localStorage-failed"]
  ELSE IF st.localStorage.kind = "none"
    THEN [found |-> FALSE, value |-> << >>, path |-> "localStorage-empty"]
  ELSE IF st.localStorage.kind = "corrupt"
    THEN [found |-> FALSE, value |-> << >>, path |-> "localStorage-failed"]
  ELSE [found |-> TRUE, value |-> JSONParse(st.localStorage), path |-> "localStorage"]

\* ipcMain.handle('save-data'): the file is written, or the handler throws and
\* the file is as it was.
ipcSaveData(st, data, faults) ==
  IF "invoke" \in faults
    THEN [stored |-> st, threw |-> TRUE]
    ELSE [stored |-> [st EXCEPT !.file = JSONStringify(data, 2)], threw |-> FALSE]

\* ipcMain.handle('load-data'): null when there is no file (ENOENT); a file
\* that cannot be read or parsed makes the handler throw.
ipcLoadData(st, faults) ==
  IF "invoke" \in faults \/ st.file.kind = "corrupt"
    THEN [threw |-> TRUE, found |-> FALSE, value |-> << >>]
  ELSE IF st.file.kind = "none"
    THEN [threw |-> FALSE, found |-> FALSE, value |-> << >>]
  ELSE [threw |-> FALSE, found |-> TRUE, value |-> JSONParse(st.file)]

saveData(st, data, faults) ==
  IF st.isElectron
    THEN IF ipcSaveData(st, data, faults).threw
           THEN [ saveToLocalStorage(st, data, faults) EXCEPT
                    !.path = "fallback-" \o @ ]
           ELSE [stored |-> ipcSaveData(st, data, faults).stored,
                 result |-> TRUE, path |-> "ipc"]
    ELSE saveToLocalStorage(st, data, faults)

loadData(st, faults) ==
  IF st.isElectron
    THEN IF ipcLoadData(st, faults).threw
           THEN [ loadFromLocalStorage(st, faults) EXCEPT !.path = "fallback-" \o @ ]
           ELSE [found |-> ipcLoadData(st, faults).found,
                 value |-> ipcLoadData(st, faults).value,
                 path |-> IF ipcLoadData(st, faults).found THEN "ipc" ELSE "ipc-empty"]
    ELSE loadFromLocalStorage(st, faults)

(***************************************************************************)
(* Startup and persistence of the component.                               *)
(***************************************************************************)
\* useState(getInitialBoards): the item in localStorage, parsed, or the
\* default boards; the save effect runs after the first render.  This
\* component does not use the storage helper; it is started in the browser.
getInitialBoards(faults) ==
  /\ last = Returned("constructor", "created")
  /\ ~stored.isElectron
  /\ LET parsed == "getItem" \notin faults /\ stored.localStorage.kind = "json"
         initialBoards == IF parsed THEN JSONParse(stored.localStorage) ELSE DefaultBoards
     IN /\ boards' = initialBoards
        /\ prevBoards' = initialBoards
        /\ isLoading' = FALSE
        /\ SaveEffect(initialBoards)
        /\ last' = Returned("getInitialBoards", IF parsed THEN "parsed" ELSE "default")
  /\ UNCHANGED <<calls, dragging, draggingBoard, dataTransfer, gesture>>

\* The component that loads through the storage helper: initializeBoards
\* sets the boards to what loadData returned, or to the default boards when
\* that is null; isLoading becomes false and the save effect saves them.
initializeBoards(loadFaults, saveFaults) ==
  /\ last = Returned("constructor", "created")
  /\ LET storedBoards == loadData(stored, loadFaults)
         initialBoards == IF storedBoards.found THEN storedBoards.value ELSE DefaultBoards
     IN /\ boards' = initialBoards
        /\ prevBoards' = initialBoards
        /\ isLoading' = FALSE
        /\ stored' = saveData(stored, initialBoards, saveFaults).stored
        /\ last' = Returned("initializeBoards", storedBoards.path)
  /\ UNCHANGED <<calls, dragging, draggingBoard, dataTransfer, gesture>>

\* The save effect of that component after the boards became data.
saveBoards(data, faults) ==
  /\ last.op # "constructor"
  /\ gesture = "none"
  /\ boards' = data
  /\ prevBoards' = boards
  /\ stored' = saveData(stored, data, faults).stored
  /\ last' = [op |-> "saveData", path |-> saveData(stored, data, faults).path,
              result |-> saveData(stored, data, faults).result, data |-> data]
  /\ UNCHANGED <<isLoading, calls, dragging, draggingBoard, dataTransfer, gesture>>

\* exportData of the storage helper, with 'export-data' of the main process
\* behind it.  The document is made of what loadData returns, not of the
\* boards of the component.  dialog is what the user does with the save
\* dialog; "export-data" in faults makes the IPC call reject, "download"
\* makes the browser download throw.  result is what exportData returns.
exportData(faults, dialog) ==
  /\ last.op # "constructor"
  /\ ~isLoading
  /\ LET data == loadData(stored, faults)
         document == JSONStringify(data.value, 2)
         download == IF "download" \in faults
                       THEN [result |-> null, path |-> "download-failed", document |-> NoItem]
                       ELSE [result |-> "browser-download", path |-> "download",
                             document |-> document]
         export == IF ~data.found
                     THEN [result |-> null, path |-> "no-data", document |-> NoItem]
                   ELSE IF stored.isElectron /\ "export-data" \notin faults
                     THEN IF dialog = "cancel"
                            THEN [result |-> null, path |-> "cancelled", document |-> NoItem]
                            ELSE [result |-> "filePath", path |-> "export-data",
                                  document |-> document]
                   ELSE download
     IN last' = [op |-> "exportData", path |-> export.path, result |-> export.result,
                 document |-> export.document, loadPath |-> data.path,
                 found |-> data.found, value |-> data.value]
  /\ prevBoards' = boards
  /\ UNCHANGED <<boards, isLoading, stored, calls, dragging, draggingBoard,
                 dataTransfer, gesture>>

\* What the user does with a file picker: closes it, or chooses a file that
\* cannot be read, a file whose text is not JSON, or the file of a tree.
\* The change event of a file input may also come without a file.
Pick(kind, tree) == [kind |-> kind, json |-> tree]

\* importData of the component and of the storage helper, with
\* 'import-data' of the main process behind it.  Under Electron the dialog
\* of the main process comes first (picked); when it gives no data, and in
\* the browser, importData clicks a file input (chosen) and returns a
\* promise that only the input's change event settles.
importData(picked, chosen, faults) ==
  /\ last.op # "constructor"
  /\ ~isLoading
  /\ gesture = "none"
  /\ LET imported == stored.isElectron /\ picked.kind = "file"
         pick == IF imported THEN picked ELSE chosen
         settled == IF imported THEN "resolved"
                    ELSE CASE chosen.kind = "file" -> "resolved"
                           [] chosen.kind = "no-file" -> "resolved"
                           [] chosen.kind = "unparsable" -> "rejected"
                           [] OTHER -> "pending"
         found == settled = "resolved" /\ pick.kind = "file"
         \* await this.saveData(key, data), then setBoards(data) and the
         \* save effect.
         saved == saveData(saveData(stored, pick.json, faults).stored, pick.json, faults)
     IN /\ boards' = IF found THEN pick.json ELSE boards
        /\ stored' = IF found THEN saved.stored ELSE stored
        /\ last' = [op |-> "importData", settled |-> settled, found |-> found,
                    pickers |-> IF imported \/ ~stored.isElectron THEN 1 ELSE 2]
  /\ prevBoards' = boards
  /\ UNCHANGED <<isLoading, calls, dragging, draggingBoard, dataTransfer, gesture>>

\* The application is closed and started again: the stores stay.
restart ==
  /\ last.op # "constructor"
  /\ gesture = "none"
  /\ boards' = << >>
  /\ prevBoards' = << >>
  /\ isLoading' = TRUE
  /\ last' = Returned("constructor", "created")
  /\ UNCHANGED <<calls, stored, dragging, draggingBoard, dataTransfer, gesture>>

(***************************************************************************)
(* The component as it runs: saves and the load are calls that settle      *)
(* later.  calls holds the saveData calls of the run in the order in which *)
(* they were issued: the tree passed, where the call stands (invoked: the  *)
(* IPC message is sent; opened: the main process has opened the file for   *)
(* writing; returned), what it returned and on which path.                 *)
(***************************************************************************)
\* The length of the text of a tree.  A board or a task adds to it; the
\* trees saved here differ in length whenever they differ.
TextLength(value) == Len(value) + Len(FlattenBoards(value))

\* A file whose text is not JSON: opened for writing and empty (length 0),
\* or the head of one text followed by the tail of a longer one.
TornItem(length) == [kind |-> "corrupt", length |-> length]

ItemLength(item) ==
  IF item.kind = "json" THEN TextLength(item.json)
  ELSE IF "length" \in DOMAIN item THEN item.length
  ELSE 0

Call(data, pc, result, path) == [data |-> data, pc |-> pc, result |-> result, path |-> path]

\* The save effect with a fault: it does not wait for the load.
saveBoardsEffect_WhileLoading(st, cs, loading, data, faults) ==
  IF st.isElectron
    THEN [stored |-> st, calls |-> Append(cs, Call(data, "invoked", FALSE, "ipc"))]
    ELSE LET saved == saveToLocalStorage(st, data, faults)
         IN [stored |-> saved.stored,
             calls |-> Append(cs, Call(data, "returned", saved.result, saved.path))]

\* useEffect(() => { if (isLoading) return; saveBoards(); }, [boards, isLoading])
\* up to the first await of saveData: in the browser the item is written
\* before saveData returns, under Electron the message is on its way.
saveBoardsEffect(st, cs, loading, data, faults) ==
  IF loading THEN [stored |-> st, calls |-> cs]
  ELSE IF st.isElectron
    THEN [stored |-> st, calls |-> Append(cs, Call(data, "invoked", FALSE, "ipc"))]
    ELSE LET saved == saveToLocalStorage(st, data, faults)
         IN [stored |-> saved.stored,
             calls |-> Append(cs, Call(data, "returned", saved.result, saved.path))]

\* The first render: boards is [] and isLoading is true; the effects run,
\* initializeBoards calls loadData and the save effect looks at isLoading.
mount(faults) ==
  /\ last = Returned("constructor", "created")
  /\ isLoading
  /\ LET effect == saveBoardsEffect(stored, calls, isLoading, boards, faults) IN
       /\ stored' = effect.stored
       /\ calls' = effect.calls
  /\ last' = Returned("mount", "loading")
  /\ prevBoards' = boards
  /\ UNCHANGED <<boards, isLoading, dragging, draggingBoard, dataTransfer, gesture>>

\* await ElectronStorage.loadData(storageKey) settles: setBoards(what was
\* loaded, or the default boards), setIsLoading(false), and the save effect
\* of the render that follows.
loadDataSettles(loadFaults, saveFaults) ==
  /\ last = Returned("mount", "loading")
  /\ LET storedBoards == loadData(stored, loadFaults)
         initialBoards == IF storedBoards.found THEN storedBoards.value ELSE DefaultBoards
         effect == saveBoardsEffect(stored, calls, FALSE, initialBoards, saveFaults)
     IN /\ boards' = initialBoards
        /\ prevBoards' = boards
        /\ isLoading' = FALSE
        /\ stored' = effect.stored
        /\ calls' = effect.calls
        /\ last' = Returned("initializeBoards", storedBoards.path)
  /\ UNCHANGED <<dragging, draggingBoard, dataTransfer, gesture>>

\* An operation of the component calls setBoards(data); the save effect of
\* the render that follows issues the save.
setBoards(data, faults) ==
  /\ ~isLoading
  /\ gesture = "none"
  /\ Len(calls) < MaxCalls
  /\ LET effect == saveBoardsEffect(stored, calls, isLoading, data, faults) IN
       /\ stored' = effect.stored
       /\ calls' = effect.calls
  /\ boards' = data
  /\ prevBoards' = boards
  /\ last' = Returned("setBoards", "rendered")
  /\ UNCHANGED <<isLoading, dragging, draggingBoard, dataTransfer, gesture>>

\* Main process, 'save-data': fs.writeFile opens the file of the key for
\* writing, which empties it.  The handlers of two calls run side by side
\* (each awaits ensureDataDir and the file system), in no fixed order.
writeFileOpens(i) ==
  /\ i \in DOMAIN calls
  /\ calls[i].pc = "invoked"
  /\ stored' = [stored EXCEPT !.file = TornItem(0)]
  /\ calls' = [calls EXCEPT ![i].pc = "opened"]
  /\ last' = Returned("save-data", "opened")
  /\ prevBoards' = boards
  /\ UNCHANGED <<boards, isLoading, dragging, draggingBoard, dataTransfer, gesture>>

\* fs.writeFile writes its text from the start of the file and the handler
\* returns: saveData returns true.  A longer text that another call wrote
\* since this call opened the file keeps its tail.
writeFileWrites(i) ==
  /\ i \in DOMAIN calls
  /\ calls[i].pc = "opened"
  /\ stored' = [stored EXCEPT !.file =
                  IF ItemLength(@) > TextLength(calls[i].data)
                    THEN TornItem(ItemLength(@))
                    ELSE JSONStringify(calls[i].data, 2)]
  /\ calls' = [calls EXCEPT ![i] = Call(@.data, "returned", TRUE, "ipc")]
  /\ last' = Returned("save-data", "written")
  /\ prevBoards' = boards
  /\ UNCHANGED <<boards, isLoading, dragging, draggingBoard, dataTransfer, gesture>>

\* saveDataRejects with a fault: the failure puts the boards back to the
\* tree of the call before.
saveDataRejects_Reverts(i, faults) ==
  /\ i \in DOMAIN calls
  /\ calls[i].pc = "invoked"
  /\ LET saved == saveToLocalStorage(stored, calls[i].data, faults) IN
       /\ stored' = saved.stored
       /\ calls' = [calls EXCEPT ![i] =
                      Call(@.data, "returned", saved.result, "fallback-" \o saved.path)]
       /\ boards' = IF saved.result \/ i = 1 THEN boards ELSE calls[i - 1].data
  /\ last' = Returned("save-data", "rejected")
  /\ prevBoards' = boards
  /\ UNCHANGED <<isLoading, dragging, draggingBoard, dataTransfer, gesture>>

\* The handler of 'save-data' throws before the file is opened, invoke
\* rejects, and saveData's catch writes the tree of the call to
\* localStorage; the save effect does not look at what saveData returns.
saveDataRejects(i, faults) ==
  /\ i \in DOMAIN calls
  /\ calls[i].pc = "invoked"
  /\ LET saved == saveToLocalStorage(stored, calls[i].data, faults) IN
       /\ stored' = saved.stored
       /\ calls' = [calls EXCEPT ![i] =
                      Call(@.data, "returned", saved.result, "fallback-" \o saved.path)]
  /\ last' = Returned("save-data", "rejected")
  /\ prevBoards' = boards
  /\ UNCHANGED <<boards, isLoading, dragging, draggingBoard, dataTransfer, gesture>>

(***************************************************************************)
(* The specifications.                                                     *)
(*                                                                         *)
(* The task handlers are called with the arguments renderTask binds to the *)
(* cards on screen; deleteTask also with a card that is gone.  The board   *)
(* handlers are called with the ids of the boards and with an id no board  *)
(* has.  handleBoardDrop is also called while a task is dragged: the       *)
(* container's onDrop tests draggingBoard and the handler tests it again.  *)
(*                                                                         *)
(* Next is every handler.  The board handlers never look inside a board's  *)
(* tasks and the task handlers address boards by id only, so the tree is   *)
(* explored in views that share the handlers: TaskNext moves, adds and     *)
(* deletes tasks (and deletes boards) on the boards of the default tree,   *)
(* BoardNext adds, deletes and reorders boards, EditNext edits tasks and   *)
(* boards, GestureNext runs the drags as the browser delivers them,        *)
(* StorageNext starts the application and saves, loads, exports and        *)
(* imports trees with every call settled at once, and RunningNext runs     *)
(* the component with its saves in flight.                                 *)
(***************************************************************************)
BoardDragStart == \E boardId \in BoardArgs : handleBoardDragStart(boardId)
BoardDrop == \E targetBoardId \in BoardArgs : handleBoardDrop(targetBoardId)
TaskDragStart ==
  \E card \in Cards :
    handleTaskDragStart(card.boardId, card.taskId, card.isSubtask, card.parentTaskId)
TaskDrop == \E target \in DropTargets : handleTaskDrop(target.boardId, target.taskId)
DeleteBoard == \E boardId \in BoardArgs, confirmed \in BOOLEAN : deleteBoard(boardId, confirmed)
DeleteTask == \E card \in Cards \cup StaleCards : deleteTask(card.boardId, card.taskId)
AddNewBoard == \E now \in DateNow, random \in 0..MaxColorIndex : addNewBoard(now, random)
AddNewTask == \E boardId \in BoardArgs, now \in DateNow : addNewTask(boardId, now)

TaskNext ==
  \/ TaskDragStart
  \/ handleTaskDragEnd
  \/ TaskDrop
  \/ DeleteTask
  \/ AddNewTask
  \/ DeleteBoard

BoardNext ==
  \/ BoardDragStart
  \/ handleBoardDragEnd
  \/ TaskDragStart
  \/ handleTaskDragEnd
  \/ BoardDrop
  \/ AddNewBoard
  \/ DeleteBoard

(***************************************************************************)
(* The editing view: tasks are added and moved, and tasks and boards are   *)
(* edited.  How far the tree is from a tree nobody edited bounds the       *)
(* edits.                                                                  *)
(***************************************************************************)
Titles == { "Edited title" }
Descriptions == { "Edited description" }
Priorities == { "low", "medium", "high" }
Texts == { "Edited text" }
ContentTypes == { "bullet", "numbered" }
\* The day the date picker is clicked on: getFullYear(), getMonth(), day.
PickedDays == { [year |-> 2025, month |-> 5, day |-> 9] }
\* The colour clicked in the board menu.
PickedColors == { boardColors[4] }

RECURSIVE Sum(_)
Sum(numbers) == IF numbers = << >> THEN 0 ELSE Head(numbers) + Sum(Tail(numbers))

\* The task as it was created.
FreshOf(task) == IF task.id = Task1.id THEN Task1 ELSE newTask(EmptyString)

ContentEdits(content, fresh) ==
  LET shorter == IF Len(content) < Len(fresh) THEN Len(content) ELSE Len(fresh)
      longer == IF Len(content) < Len(fresh) THEN Len(fresh) ELSE Len(content)
  IN (longer - shorter) + Cardinality({ i \in 1..shorter : content[i] # fresh[i] })

TaskEdits(task) ==
  Cardinality({ field \in { "title", "description", "dueDate", "priority" } :
                task[field] # FreshOf(task)[field] })
  + ContentEdits(task.content, FreshOf(task).content)

BoardEdits(board) ==
  IF \E i \in DOMAIN DefaultBoards : DefaultBoards[i].id = board.id
    THEN LET fresh == DefaultBoards[FindIndex(DefaultBoards, board.id)] IN
           Cardinality({ field \in { "title", "color" } : board[field] # fresh[field] })
    ELSE IF board.title = "New Board" THEN 0 ELSE 1

Edits(bs) ==
  LET flat == FlattenBoards(bs) IN
    Sum([ i \in DOMAIN flat |-> TaskEdits(flat[i]) ])
    + Sum([ i \in DOMAIN bs |-> BoardEdits(bs[i]) ])

\* The tree is arranged before it is edited.
Unedited == Edits(boards) = 0

EditOffered == Edits(boards) < MaxEdits

\* The indices a content handler is called with for a card: those of the
\* items on it, and one before and one past them.
ItemIndexes(card) ==
  LET boardIndex == FindIndex(boards, card.boardId)
      flat == IF boardIndex = 0 THEN << >> ELSE Flatten(boards[boardIndex].tasks)
      at == FindIndex(flat, card.taskId)
  IN (0 - 1) .. (IF at = 0 THEN 0 ELSE Len(flat[at].content))

UpdateTaskTitle ==
  /\ EditOffered
  /\ \E card \in Cards \cup StaleCards, newTitle \in Titles :
       updateTaskTitle(card.boardId, card.taskId, newTitle)
UpdateTaskDescription ==
  /\ EditOffered
  /\ \E card \in Cards \cup StaleCards, newDescription \in Descriptions :
       updateTaskDescription(card.boardId, card.taskId, newDescription)
SetDueDate ==
  /\ EditOffered
  /\ \E card \in Cards \cup StaleCards, picked \in PickedDays :
       setDueDate(card.taskId, card.boardId, DateStr(picked.year, picked.month, picked.day))
UpdateTaskPriority ==
  /\ EditOffered
  /\ \E card \in Cards \cup StaleCards, priority \in Priorities :
       updateTaskPriority(card.boardId, card.taskId, priority)
AddContentItem ==
  /\ EditOffered
  /\ \E card \in Cards \cup StaleCards, type \in ContentTypes :
       addContentItem(card.taskId, card.boardId, type)
DeleteContentItem ==
  /\ EditOffered
  /\ \E card \in Cards \cup StaleCards :
       \E contentIndex \in ItemIndexes(card) :
         deleteContentItem(card.taskId, card.boardId, contentIndex)
UpdateTaskContent ==
  /\ EditOffered
  /\ \E card \in Cards \cup StaleCards, newText \in Texts :
       \E index \in ItemIndexes(card) :
         updateTaskContent(card.boardId, card.taskId, index, newText)
UpdateBoardTitle ==
  /\ EditOffered
  /\ \E boardId \in BoardArgs, newTitle \in Titles : updateBoardTitle(boardId, newTitle)
UpdateBoardColor ==
  /\ EditOffered
  /\ \E boardId \in BoardArgs, newColor \in PickedColors :
       updateBoardColor(boardId, newColor)

ArrangeDragStart == Unedited /\ TaskDragStart
ArrangeDragEnd == Unedited /\ handleTaskDragEnd
ArrangeDrop == Unedited /\ TaskDrop
ArrangeAdd == Unedited /\ AddNewTask

EditNext ==
  \/ ArrangeDragStart
  \/ ArrangeDragEnd
  \/ ArrangeDrop
  \/ ArrangeAdd
  \/ UpdateTaskTitle
  \/ UpdateTaskDescription
  \/ SetDueDate
  \/ UpdateTaskPriority
  \/ AddContentItem
  \/ DeleteContentItem
  \/ UpdateTaskContent
  \/ UpdateBoardTitle
  \/ UpdateBoardColor

(***************************************************************************)
(* The gesture view: a drag as the browser runs it.  A release is a drop   *)
(* on an element only if a dragover handler that the event reached called  *)
(* preventDefault; every other release cancels the drag.  A drop event     *)
(* runs the onDrop handlers from the element up until one stops the        *)
(* propagation, and dragend follows at the dragged element either way.     *)
(***************************************************************************)
\* Whether handleBoardDragOver calls e.preventDefault().
handleBoardDragOver == draggingBoard # null

\* Whether handleTaskDragOver calls e.preventDefault() (and stops the event).
handleTaskDragOver == dragging # NoDrag

\* A release over the zone is a drop.  Over a card (taskId is its task) the
\* card's onDragOver stops the event and asks handleTaskDragOver; over a
\* board outside its cards (taskId is null) the container's handler is asked.
AcceptsDrop(zone) ==
  IF zone.taskId # null THEN handleTaskDragOver ELSE handleBoardDragOver

\* onDrop of the board container.
boardOnDrop(boardId) ==
  IF draggingBoard # null THEN handleBoardDrop(boardId)
  ELSE IF dragging # NoDrag THEN handleTaskDrop(boardId, null)
  ELSE /\ gesture = "dragging"
       /\ gesture' = "dropped"
       /\ last' = Returned("onDrop", "ignored")
       /\ prevBoards' = boards
       /\ UNCHANGED <<boards, isLoading, stored, calls, dragging, draggingBoard,
                      dataTransfer>>

\* onDrop of a card with a fault: the propagation is not stopped.  The
\* container's onDrop runs after the card's with the boards of the same
\* render, and its setBoards is the one that stays.
cardOnDrop_Bubbles(boardId, taskId) == boardOnDrop(boardId)

\* onDrop of a card: e.stopPropagation(), then handleTaskDrop; the event does
\* not reach the board container.
cardOnDrop(boardId, taskId) == handleTaskDrop(boardId, taskId)

GripDragStart == \E boardId \in BoardIds(boards) : handleBoardDragStart(boardId)
DropOnCard ==
  \E card \in Cards :
    /\ AcceptsDrop([boardId |-> card.boardId, taskId |-> card.taskId])
    /\ cardOnDrop(card.boardId, card.taskId)
DropOnBoard ==
  \E boardId \in BoardIds(boards) :
    /\ AcceptsDrop([boardId |-> boardId, taskId |-> null])
    /\ boardOnDrop(boardId)

GestureNext ==
  \/ TaskDragStart
  \/ GripDragStart
  \/ DropOnCard
  \/ DropOnBoard
  \/ handleTaskDragEnd
  \/ handleBoardDragEnd
  \/ AddNewTask

(***************************************************************************)
(* The storage view: the application starts on stores a former run left,   *)
(* saves trees and loads them, in the browser and under Electron.          *)
(***************************************************************************)
\* Trees the operations build: no board, the default boards, and the
\* default boards with a new task that holds a new subtask.
SavedTrees ==
  { << >>,
    DefaultBoards,
    [DefaultBoards EXCEPT ![2].tasks =
       << [newTask("1762000000000") EXCEPT
             !.subtasks = << newTask("1762000000001") >>] >>] }

\* The tree of a former run.
FormerTree == [DefaultBoards EXCEPT ![1].tasks = << >>]

\* What a former run left under the key in localStorage, and in the file.
FormerItems(space) == { NoItem, CorruptItem, JSONStringify(FormerTree, space) }

StartupInit ==
  /\ boards = << >>
  /\ prevBoards = << >>
  /\ isLoading = TRUE
  /\ calls = << >>
  /\ stored \in { [isElectron |-> e, localStorage |-> l, file |-> f] :
                     e \in BOOLEAN, l \in FormerItems(0), f \in FormerItems(2) }
  /\ stored.isElectron \/ stored.file = NoItem
  /\ dragging = NoDrag
  /\ draggingBoard = null
  /\ dataTransfer = NoData
  /\ gesture = "none"
  /\ last = Returned("constructor", "created")

GetInitialBoards == \E faults \in SUBSET Faults : getInitialBoards(faults)
InitializeBoards ==
  \E loadFaults \in SUBSET Faults, saveFaults \in SUBSET Faults :
    initializeBoards(loadFaults, saveFaults)
SaveBoards == \E data \in SavedTrees, faults \in SUBSET Faults : saveBoards(data, faults)
\* The save dialog of the main process.
Dialogs == { "save", "cancel" }

\* What fails in an export: the load's IPC call or localStorage, the
\* 'export-data' call, the download.
ExportFaults == { "invoke", "getItem", "export-data", "download" }

\* What the user does with a file picker.
Picks ==
  { Pick("cancel", << >>), Pick("unreadable", << >>), Pick("unparsable", << >>),
    Pick("no-file", << >>), Pick("file", FormerTree) }

ExportData == \E faults \in SUBSET ExportFaults, dialog \in Dialogs : exportData(faults, dialog)
ImportData ==
  \E picked \in Picks \ { Pick("no-file", << >>) }, chosen \in Picks, faults \in SUBSET Faults :
    importData(picked, chosen, faults)

StorageNext ==
  \/ GetInitialBoards
  \/ InitializeBoards
  \/ SaveBoards
  \/ ExportData
  \/ ImportData
  \/ restart

(***************************************************************************)
(* The running view: the component that loads and saves through the        *)
(* storage helper, with its calls in flight.  It starts on the stores of   *)
(* StartupInit; the operations commit the trees of SavedTrees.             *)
(***************************************************************************)
\* What fails in a save that ends in localStorage, and in a load.
SetItemFaults == SUBSET { "setItem" }
LoadFaults == SUBSET { "invoke", "getItem" }

Mount == \E faults \in SetItemFaults : mount(faults)
LoadDataSettles ==
  \E loadFaults \in LoadFaults, saveFaults \in SetItemFaults :
    loadDataSettles(loadFaults, saveFaults)
SetBoards == \E data \in SavedTrees, faults \in SetItemFaults : setBoards(data, faults)
WriteFileOpens == \E i \in DOMAIN calls : writeFileOpens(i)
WriteFileWrites == \E i \in DOMAIN calls : writeFileWrites(i)
SaveDataRejects == \E i \in DOMAIN calls, faults \in SetItemFaults : saveDataRejects(i, faults)
\* An export whose own calls meet no fault: what it loads depends on the
\* saves in flight.
ExportWhileSaving == \E dialog \in Dialogs : exportData({ }, dialog)

RunningNext ==
  \/ Mount
  \/ LoadDataSettles
  \/ SetBoards
  \/ WriteFileOpens
  \/ WriteFileWrites
  \/ SaveDataRejects
  \/ ExportWhileSaving

Next == TaskNext \/ BoardNext \/ EditNext \/ GestureNext \/ StorageNext \/ RunningNext

Spec == Init /\ [][Next]_vars
TaskSpec == Init /\ [][TaskNext]_vars
BoardSpec == Init /\ [][BoardNext]_vars
EditSpec == Init /\ [][EditNext]_vars
GestureSpec == Init /\ [][GestureNext]_vars
StorageSpec == StartupInit /\ [][StorageNext]_vars
RunningSpec == StartupInit /\ [][RunningNext]_vars

\* The browser fires dragend at the end of every drag operation.
FairGestureSpec ==
  GestureSpec /\ WF_vars(handleTaskDragEnd) /\ WF_vars(handleBoardDragEnd)

\* The effects of the first render run, and the promise of loadData settles:
\* the IPC call resolves or rejects, localStorage answers at once.
FairRunningSpec == RunningSpec /\ WF_vars(Mount) /\ WF_vars(LoadDataSettles)

(***************************************************************************)
(* Vocabulary of the properties.                                           *)
(***************************************************************************)
\* The ids of the tasks below a task, at any depth.
DescendantIds(task) == { t.id : t \in Range(Flatten(task.subtasks)) }

\* The top-level tasks of the board with the id (none when there is none).
TasksOfBoard(bs, boardId) ==
  IF FindIndex(bs, boardId) = 0 THEN << >> ELSE bs[FindIndex(bs, boardId)].tasks

\* A task drag is in progress and the card (targetBoardId, targetTaskId)
\* lies below the dragged task.
TargetInSourceSubtree(targetBoardId, targetTaskId) ==
  /\ dragging # NoDrag
  /\ targetBoardId = dragging[1].boardId
  /\ \E a \in Range(Flatten(TasksOfBoard(boards, dragging[1].boardId))) :
       a.id = dragging[1].taskId /\ targetTaskId \in DescendantIds(a)

(***************************************************************************)
(* C1.  A task drop whose target is a task in the dragged task's own       *)
(* subtree is rejected: the boards tree after the drop equals the tree     *)
(* before it.                                                              *)
(***************************************************************************)
C1_DescendantDropRejected ==
  [][ \A card \in Cards :
        ( /\ TargetInSourceSubtree(card.boardId, card.taskId)
          /\ handleTaskDrop(card.boardId, card.taskId) )
        => boards' = boards ]_vars

(***************************************************************************)
(* C2.  A task drop in which a required id cannot be located (the source   *)
(* board, the source task in the source board, the target board, or the    *)
(* target task in the target board once the source was taken out) leaves   *)
(* the boards tree unchanged, and no drop makes the forest lose a task.    *)
(***************************************************************************)
\* Every lookup handleTaskDrop makes for this target finds what it looks for.
AllLocated(targetBoardId, targetTaskId) ==
  LET sourceBoardId == dragging[1].boardId
      sourceTaskId == dragging[1].taskId
      removal == findAndRemoveTask(TasksOfBoard(boards, sourceBoardId), sourceTaskId)
      afterRemoval == [boards EXCEPT ![FindIndex(boards, sourceBoardId)].tasks = removal.tasks]
  IN /\ FindIndex(boards, sourceBoardId) # 0
     /\ removal.found
     /\ FindIndex(boards, targetBoardId) # 0
     /\ targetTaskId # null =>
          addSubtask(TasksOfBoard(afterRemoval, targetBoardId), targetTaskId, removal.task).found

C2_UnlocatedDropLeavesTree ==
  [][ \A target \in DropTargets :
        ( /\ dragging # NoDrag
          /\ handleTaskDrop(target.boardId, target.taskId) )
        => /\ ~AllLocated(target.boardId, target.taskId) => boards' = boards
           /\ Len(FlattenBoards(boards')) = Len(FlattenBoards(boards)) ]_vars

(***************************************************************************)
(* C3.  After a task drop that commits, onto a board or onto a task that   *)
(* is not below the moved task, the moved task is the last element of the  *)
(* target container with the fields and the whole subtree it had before    *)
(* the drop, and the forest holds as many tasks as before.  The moved task *)
(* is the task the drop takes out of the source board: the first one in    *)
(* pre-order with the dragged id.                                          *)
(***************************************************************************)
\* The first task with the id in a forest, in pre-order.
FirstWithId(tasks, id) == Flatten(tasks)[FindIndex(Flatten(tasks), id)]

MovedTask == FirstWithId(TasksOfBoard(boards, dragging[1].boardId), dragging[1].taskId)

\* task is the last element of the container the target names in bs.
LastOfTarget(bs, target, task) ==
  IF target.taskId = null
    THEN /\ TasksOfBoard(bs, target.boardId) # << >>
         /\ TasksOfBoard(bs, target.boardId)[Len(TasksOfBoard(bs, target.boardId))] = task
    ELSE \E parent \in Range(Flatten(TasksOfBoard(bs, target.boardId))) :
           /\ parent.id = target.taskId
           /\ parent.subtasks # << >>
           /\ parent.subtasks[Len(parent.subtasks)] = task

C3_MoveKeepsSubtree ==
  [][ \A target \in DropTargets :
        ( /\ dragging # NoDrag
          /\ handleTaskDrop(target.boardId, target.taskId)
          /\ last'.path = "setBoards"
          /\ target.taskId \notin DescendantIds(MovedTask) )
        => /\ LastOfTarget(boards', target, MovedTask)
           /\ Len(FlattenBoards(boards')) = Len(FlattenBoards(boards)) ]_vars

\* task-1, holding a subtask and its two content items, was dragged from
\* board-1 and is now the last task of board-2.
C3_Witness ==
  /\ gesture = "dropped"
  /\ last = Returned("handleTaskDrop", "setBoards")
  /\ dragging # NoDrag
  /\ dragging[1].taskId = "task-1"
  /\ dragging[1].boardId = "board-1"
  /\ \E task \in Range(TasksOfBoard(boards, "board-2")) :
       /\ task.id = "task-1"
       /\ task.subtasks # << >>
       /\ task.content = Task1.content
       /\ LastOfTarget(boards, [boardId |-> "board-2", taskId |-> null], task)

(***************************************************************************)
(* C4.  A task drop whose target task id equals the dragged task's id is   *)
(* a no-op: the boards tree is unchanged and nothing is written to         *)
(* storage.                                                                *)
(***************************************************************************)
C4_DropOnItselfIsNoOp ==
  [][ \A target \in DropTargets :
        ( /\ dragging # NoDrag
          /\ target.taskId = dragging[1].taskId
          /\ handleTaskDrop(target.boardId, target.taskId) )
        => /\ boards' = boards
           /\ stored' = stored ]_vars

\* A task that has a subtask was dropped on its own card.
C4_Witness ==
  /\ gesture = "dropped"
  /\ last = Returned("handleTaskDrop", "same-task")
  /\ dragging # NoDrag
  /\ \E task \in Range(FlattenBoards(boards)) :
       task.id = dragging[1].taskId /\ task.subtasks # << >>

(***************************************************************************)
(* Places.  A place is a board index b and a path p of indices leading     *)
(* from the board's top-level tasks down to one task.                      *)
(***************************************************************************)
RECURSIVE PathsOf(_)
PathsOf(tasks) ==
  UNION { { << i >> } \cup { << i >> \o r : r \in PathsOf(tasks[i].subtasks) }
          : i \in DOMAIN tasks }

RECURSIVE NodeAt(_, _)
NodeAt(tasks, p) ==
  IF Len(p) = 1 THEN tasks[p[1]] ELSE NodeAt(tasks[p[1]].subtasks, Tail(p))

RECURSIVE RemoveAt(_, _)
RemoveAt(tasks, p) ==
  IF Len(p) = 1 THEN SpliceOut(tasks, p[1])
  ELSE [tasks EXCEPT ![p[1]].subtasks = RemoveAt(@, Tail(p))]

\* x becomes the last subtask of the task at p.
RECURSIVE AppendAt(_, _, _)
AppendAt(tasks, p, x) ==
  IF Len(p) = 1 THEN [tasks EXCEPT ![p[1]].subtasks = Append(@, x)]
  ELSE [tasks EXCEPT ![p[1]].subtasks = AppendAt(@, Tail(p), x)]

Places(bs) ==
  UNION { { [b |-> b, p |-> p] : p \in PathsOf(bs[b].tasks) } : b \in DOMAIN bs }

TaskAt(bs, place) == NodeAt(bs[place.b].tasks, place.p)

\* The id of the task that holds the task at the place; null at top level.
ParentIdAt(bs, place) ==
  IF Len(place.p) = 1 THEN null
  ELSE NodeAt(bs[place.b].tasks, SubSeq(place.p, 1, Len(place.p) - 1)).id

\* The task at place t is the task at place s or lies below it.
Within(s, t) ==
  /\ s.b = t.b
  /\ Len(s.p) <= Len(t.p)
  /\ SubSeq(t.p, 1, Len(s.p)) = s.p

\* The places whose card starts a drag with the payload now in dragging.
DraggedPlaces ==
  IF dragging = NoDrag THEN { }
  ELSE { s \in Places(boards) :
           /\ boards[s.b].id = dragging[1].boardId
           /\ TaskAt(boards, s).id = dragging[1].taskId
           /\ ParentIdAt(boards, s) = dragging[1].parentTaskId }

\* The places whose card calls handleTaskDrop with this target.
TargetPlaces(target) ==
  { t \in Places(boards) :
      boards[t.b].id = target.boardId /\ TaskAt(boards, t).id = target.taskId }

\* The tree in which the task at s has left its container and is the last
\* subtask of the task at t (t not within s).  Appending first keeps every
\* path of the old tree valid.
Relocated(bs, s, t) ==
  LET appended == [bs EXCEPT ![t.b].tasks = AppendAt(@, t.p, TaskAt(bs, s))]
  IN [appended EXCEPT ![s.b].tasks = RemoveAt(@, s.p)]

\* No two tasks of the forest and no two boards have the same id.
UniqueIds(bs) ==
  /\ Cardinality(TaskIds(bs)) = Len(FlattenBoards(bs))
  /\ Cardinality(BoardIds(bs)) = Len(bs)

(***************************************************************************)
(* C5.  Dropping the card of task S on the card of task T, T another task  *)
(* and not below S, takes S out of its container and makes it the last     *)
(* subtask of T, wherever S was; nothing else in the tree changes.         *)
(***************************************************************************)
C5_DropOntoTaskAppends ==
  [][ \A target \in DropTargets, s \in DraggedPlaces :
        \A t \in TargetPlaces(target) :
          ( /\ s # t
            /\ ~Within(s, t)
            /\ handleTaskDrop(target.boardId, target.taskId) )
          => boards' = Relocated(boards, s, t) ]_vars

\* The same, in the states in which every id occurs once.
C5_WhenIdsUnique ==
  [][ \A target \in DropTargets, s \in DraggedPlaces :
        \A t \in TargetPlaces(target) :
          ( /\ UniqueIds(boards)
            /\ s # t
            /\ ~Within(s, t)
            /\ handleTaskDrop(target.boardId, target.taskId) )
          => boards' = Relocated(boards, s, t) ]_vars

(***************************************************************************)
(* C6.  After a board drop with two distinct ids that both exist the       *)
(* boards are the same boards (the same ids, titles, colors and tasks, as  *)
(* many times each), and the order of every board is its index in the      *)
(* display-sorted sequence, so the orders are 0..n-1.                      *)
(***************************************************************************)
\* A board without its order.
Unordered(board) ==
  [id |-> board.id, title |-> board.title, color |-> board.color, tasks |-> board.tasks]

\* How many boards of bs are this board, order aside.
Copies(bs, board) == Cardinality({ i \in DOMAIN bs : Unordered(bs[i]) = Unordered(board) })

\* A board drag is in progress and the drop on targetBoardId reorders.
ReorderingDrop(targetBoardId) ==
  /\ draggingBoard # null
  /\ dataTransfer.type = "board/id"
  /\ dataTransfer.data # targetBoardId
  /\ dataTransfer.data \in BoardIds(boards)
  /\ targetBoardId \in BoardIds(boards)

C6_ReorderKeepsBoards ==
  [][ \A targetBoardId \in BoardArgs :
        ( /\ ReorderingDrop(targetBoardId)
          /\ handleBoardDrop(targetBoardId) )
        => /\ Len(boards') = Len(boards)
           /\ \A i \in DOMAIN boards : Copies(boards', boards[i]) = Copies(boards, boards[i])
           /\ \A i \in DOMAIN boards' : SortByOrder(boards')[i].order = i - 1 ]_vars

\* board-1, which holds a task, was dragged to the end of two or more boards.
C6_Witness ==
  /\ gesture = "dropped"
  /\ last = Returned("handleBoardDrop", "setBoards")
  /\ dataTransfer.data = "board-1"
  /\ Len(boards) >= 2
  /\ boards[Len(boards)].id = "board-1"
  /\ boards[Len(boards)].tasks # << >>
  /\ boards[Len(boards)].order = Len(boards) - 1

(***************************************************************************)
(* C7, as stated.  After a board drop with two distinct ids that both      *)
(* exist the dragged board stands immediately before the target board,     *)
(* whether it came from before or from after the target.                   *)
(***************************************************************************)
\* The index of the first board with the id.
IndexOfBoard(bs, boardId) ==
  CHOOSE i \in DOMAIN bs : bs[i].id = boardId /\ \A j \in 1..(i - 1) : bs[j].id # boardId

C7_SourceImmediatelyBeforeTarget ==
  [][ \A targetBoardId \in BoardArgs :
        ( /\ ReorderingDrop(targetBoardId)
          /\ handleBoardDrop(targetBoardId) )
        => IndexOfBoard(boards', dataTransfer.data) + 1
             = IndexOfBoard(boards', targetBoardId) ]_vars

(***************************************************************************)
(* C7, amended.  After a board drop with two distinct ids that both exist  *)
(* the dragged board stands at the index the target board had before the   *)
(* drop: immediately before the target board when it came from after it,   *)
(* immediately after the target board when it came from before it.         *)
(***************************************************************************)
C7_SourceTakesTargetIndex ==
  [][ \A targetBoardId \in BoardArgs :
        ( /\ ReorderingDrop(targetBoardId)
          /\ handleBoardDrop(targetBoardId) )
        => LET d == IndexOfBoard(boards, dataTransfer.data)
               t == IndexOfBoard(boards, targetBoardId)
           IN /\ boards'[t] = [boards[d] EXCEPT !.order = t - 1]
              /\ d > t => boards'[t + 1] = [boards[t] EXCEPT !.order = t]
              /\ d < t => boards'[t - 1] = [boards[t] EXCEPT !.order = t - 2] ]_vars

\* board-1 was dragged from the front of the three default boards onto
\* board-3 and now stands behind it.
C7_Witness ==
  /\ gesture = "dropped"
  /\ last = Returned("handleBoardDrop", "setBoards")
  /\ dataTransfer.data = "board-1"
  /\ Len(boards) = 3
  /\ boards[1].id = "board-2"
  /\ boards[2].id = "board-3"
  /\ boards[3].id = "board-1"

(***************************************************************************)
(* C8.  A board drop leaves the boards tree and the stored tree as they    *)
(* are when no board is being dragged, when the dragged board's id is the  *)
(* target's id, and when one of the two ids is the id of no board; after   *)
(* it no board is being dragged.                                           *)
(***************************************************************************)
C8_BoardDropNoOp ==
  [][ \A targetBoardId \in BoardArgs :
        ( /\ \/ draggingBoard = null
             \/ dataTransfer.data = targetBoardId
             \/ dataTransfer.data \notin BoardIds(boards)
             \/ targetBoardId \notin BoardIds(boards)
          /\ handleBoardDrop(targetBoardId) )
        => /\ boards' = boards
           /\ stored' = stored
           /\ draggingBoard' = null ]_vars

\* A drop in which one of the two ids is the id of no board returned at the
\* test of the two indices.
C8_Witness ==
  /\ gesture = "dropped"
  /\ last = Returned("handleBoardDrop", "board-not-found")
  /\ draggingBoard = null
  /\ boards # << >>

\* The other two cases of C8 happen too.
C8_WitnessSameBoard ==
  /\ last = Returned("handleBoardDrop", "same-board")
  /\ draggingBoard = null
  /\ dataTransfer.data \in BoardIds(boards)

C8_WitnessNotDragging ==
  /\ last = Returned("handleBoardDrop", "not-dragging")
  /\ draggingBoard = null

(***************************************************************************)
(* C9.  After deleteTask for a task id that exists one task with that id   *)
(* has left the place where it was, with everything below it; no task of   *)
(* the forest has that id any more; the forest holds 1 plus the number of  *)
(* its descendants fewer tasks; and every other task is where and what it  *)
(* was.  deleteTask for an id that no task has leaves the tree unchanged.  *)
(***************************************************************************)
\* The tree without the task at the place and what is below it.
Without(bs, place) == [bs EXCEPT ![place.b].tasks = RemoveAt(@, place.p)]

DeleteTaskPost(taskId) ==
  IF taskId \in TaskIds(boards)
    THEN /\ \E place \in Places(boards) :
              /\ TaskAt(boards, place).id = taskId
              /\ boards' = Without(boards, place)
              /\ Len(FlattenBoards(boards')) + 1 + Len(Flatten(TaskAt(boards, place).subtasks))
                   = Len(FlattenBoards(boards))
         /\ taskId \notin TaskIds(boards')
    ELSE boards' = boards

C9_DeleteTaskRemovesId ==
  [][ \A card \in Cards \cup StaleCards :
        deleteTask(card.boardId, card.taskId) => DeleteTaskPost(card.taskId) ]_vars

\* The same, in the states in which every id occurs once.
C9_WhenIdsUnique ==
  [][ \A card \in Cards \cup StaleCards :
        ( UniqueIds(boards) /\ deleteTask(card.boardId, card.taskId) )
        => DeleteTaskPost(card.taskId) ]_vars

(***************************************************************************)
(* C10.  A confirmed deleteBoard of a board that exists removes that board *)
(* and nothing else: the other boards keep their sequence, ids, titles,    *)
(* colors, orders and tasks, and no id of a task of the deleted board is   *)
(* the id of a task of the forest afterwards.                              *)
(***************************************************************************)
DeleteBoardPost(boardId) ==
  LET i == IndexOfBoard(boards, boardId) IN
    /\ boards' = SpliceOut(boards, i)
    /\ \A task \in Range(Flatten(boards[i].tasks)) : task.id \notin TaskIds(boards')

C10_DeleteBoardRemovesItsTasks ==
  [][ \A boardId \in BoardIds(boards) :
        deleteBoard(boardId, TRUE) => DeleteBoardPost(boardId) ]_vars

\* The same, in the states in which every id occurs once.
C10_WhenIdsUnique ==
  [][ \A boardId \in BoardIds(boards) :
        ( UniqueIds(boards) /\ deleteBoard(boardId, TRUE) )
        => DeleteBoardPost(boardId) ]_vars

(***************************************************************************)
(* C11.  In every reachable state every id, of a board or of a task at any *)
(* depth, occurs exactly once in the whole forest, also after two          *)
(* additions made at the same clock value.                                 *)
(***************************************************************************)
C11_EveryIdOccursOnce == UniqueIds(boards)

(***************************************************************************)
(* C12.  addNewBoard appends one board with the title "New Board", no      *)
(* tasks, an order equal to the number of boards before the call and a     *)
(* color of the palette; the boards that were there are unchanged.         *)
(***************************************************************************)
C12_AddNewBoardAppends ==
  [][ \A now \in DateNow, random \in 0..MaxColorIndex :
        addNewBoard(now, random)
        => /\ Len(boards') = Len(boards) + 1
           /\ SubSeq(boards', 1, Len(boards)) = boards
           /\ boards'[Len(boards')].title = "New Board"
           /\ boards'[Len(boards')].tasks = << >>
           /\ boards'[Len(boards')].order = Len(boards)
           /\ boards'[Len(boards')].color \in Range(randomBoardColors) ]_vars

\* A board was added behind a board whose order is not its index.
C12_Witness ==
  /\ last = Returned("addNewBoard", "setBoards")
  /\ Len(boards) >= 2
  /\ boards[Len(boards)].title = "New Board"
  /\ boards[Len(boards)].order = Len(boards) - 1
  /\ boards[Len(boards) - 1].order # Len(boards) - 2

(***************************************************************************)
(* C13.  addNewTask(boardId) makes one task with the title "New Task", an  *)
(* empty dueDate, priority medium and no tags, content or subtasks the     *)
(* last top-level task of a board with that id and changes nothing else;   *)
(* no task's subtasks receive it.  When no board has the id the tree is    *)
(* unchanged.                                                              *)
(***************************************************************************)
\* task has the defaults of a task that was just added.
FreshTask(task) ==
  /\ task.title = "New Task"
  /\ task.dueDate = ""
  /\ task.priority = "medium"
  /\ task.tags = << >>
  /\ task.content = << >>
  /\ task.subtasks = << >>

C13_WitnessBoardNotFound == last = Returned("addNewTask", "board-not-found")

(***************************************************************************)
(* C14.  updateTaskTitle, the description's onChange, setDueDate and       *)
(* updateTaskPriority, called with a board id, a task id and a value, set  *)
(* that one field of a task with that id in that board, at whatever depth  *)
(* the task is nested, and change no other field, task or board; when the  *)
(* board has no task with the id the tree is left as it is.  None of them  *)
(* throws.                                                                 *)
(***************************************************************************)
RECURSIVE SetAt(_, _, _, _)
SetAt(tasks, p, field, value) ==
  IF Len(p) = 1 THEN [tasks EXCEPT ![p[1]][field] = value]
  ELSE [tasks EXCEPT ![p[1]].subtasks = SetAt(@, Tail(p), field, value)]

\* Where the board with the id holds a task with the id.
PlacesOf(bs, boardId, taskId) ==
  { s \in Places(bs) : bs[s.b].id = boardId /\ TaskAt(bs, s).id = taskId }

FieldSet(boardId, taskId, field, value) ==
  /\ last'.path # "TypeError"
  /\ IF PlacesOf(boards, boardId, taskId) = { }
       THEN boards' = boards
       ELSE \E s \in PlacesOf(boards, boardId, taskId) :
              boards' = [boards EXCEPT ![s.b].tasks = SetAt(@, s.p, field, value)]

C14_FieldUpdateSetsOneField ==
  [][ \A card \in Cards \cup StaleCards :
        /\ \A newTitle \in Titles :
             updateTaskTitle(card.boardId, card.taskId, newTitle)
             => FieldSet(card.boardId, card.taskId, "title", newTitle)
        /\ \A newDescription \in Descriptions :
             updateTaskDescription(card.boardId, card.taskId, newDescription)
             => FieldSet(card.boardId, card.taskId, "description", newDescription)
        /\ \A picked \in PickedDays :
             setDueDate(card.taskId, card.boardId,
                        DateStr(picked.year, picked.month, picked.day))
             => FieldSet(card.boardId, card.taskId, "dueDate", "2025-06-09")
        /\ \A priority \in Priorities :
             updateTaskPriority(card.boardId, card.taskId, priority)
             => FieldSet(card.boardId, card.taskId, "priority", priority) ]_vars

\* The priority of a subtask of a subtask was set.
C14_Witness ==
  /\ last = Returned("updateTaskPriority", "updated")
  /\ \E s \in Places(boards) :
       /\ Len(s.p) >= 3
       /\ TaskAt(boards, s).priority = "low"
       /\ TaskAt(boards, s).title = "New Task"

\* The title of a subtask was set.
C14_WitnessTitle ==
  /\ last = Returned("updateTaskTitle", "updated")
  /\ \E s \in Places(boards) : Len(s.p) = 2 /\ TaskAt(boards, s).title \in Titles

\* A due date was set on the card of a task that is in no board.
C14_WitnessNotFound == last = Returned("setDueDate", "not-found")

(***************************************************************************)
(* C15.  deleteContentItem and the text update of a content item, called   *)
(* with an index that is not an index of the task's content (negative, or  *)
(* the length and beyond), leave the content as it is and do not throw;    *)
(* with an index of the content, the delete removes exactly that item and  *)
(* keeps the others in order, and the update changes the text of that item *)
(* only.                                                                   *)
(***************************************************************************)
\* The content the claim asks for after a delete at the index.
WithoutItem(content, index) ==
  IF (index + 1) \in DOMAIN content THEN SpliceOut(content, index + 1) ELSE content

\* The content the claim asks for after a text update at the index.
WithText(content, index, text) ==
  IF (index + 1) \in DOMAIN content
    THEN [content EXCEPT ![index + 1].text = text]
    ELSE content

DeleteItemPost(card, index) ==
  /\ last'.path # "TypeError"
  /\ IF PlacesOf(boards, card.boardId, card.taskId) = { }
       THEN boards' = boards
       ELSE \E s \in PlacesOf(boards, card.boardId, card.taskId) :
              boards' = [boards EXCEPT ![s.b].tasks =
                           SetAt(@, s.p, "content",
                                 WithoutItem(TaskAt(boards, s).content, index))]

UpdateItemPost(card, index, text) ==
  /\ last'.path # "TypeError"
  /\ IF PlacesOf(boards, card.boardId, card.taskId) = { }
       THEN boards' = boards
       ELSE \E s \in PlacesOf(boards, card.boardId, card.taskId) :
              boards' = [boards EXCEPT ![s.b].tasks =
                           SetAt(@, s.p, "content",
                                 WithText(TaskAt(boards, s).content, index, text))]

C15_ContentIndexChecked ==
  [][ \A card \in Cards \cup StaleCards :
        \A index \in ItemIndexes(card) :
          /\ deleteContentItem(card.taskId, card.boardId, index)
             => DeleteItemPost(card, index)
          /\ \A newText \in Texts :
               updateTaskContent(card.boardId, card.taskId, index, newText)
               => UpdateItemPost(card, index, newText) ]_vars

\* The index is an index of the content of every task the card can mean.
IndexInRange(card, index) ==
  \A s \in PlacesOf(boards, card.boardId, card.taskId) :
    (index + 1) \in DOMAIN TaskAt(boards, s).content

\* The part of C15 about indices of the content holds.
C15_WhenIndexInRange ==
  [][ \A card \in Cards \cup StaleCards :
        \A index \in ItemIndexes(card) :
          IndexInRange(card, index)
          => /\ deleteContentItem(card.taskId, card.boardId, index)
                => DeleteItemPost(card, index)
             /\ \A newText \in Texts :
                  updateTaskContent(card.boardId, card.taskId, index, newText)
                  => UpdateItemPost(card, index, newText) ]_vars

\* Deleting at the length of the content removes nothing.
C15_DeleteAtLengthKeepsContent ==
  [][ \A card \in Cards :
        deleteContentItem(card.taskId, card.boardId, Cardinality(ItemIndexes(card)) - 2)
        => boards' = boards ]_vars

\* The text update threw.
C15_WitnessTypeError == last = Returned("updateTaskContent", "TypeError")

\* A delete left the seed task with its first item only.
C15_WitnessDeleted ==
  /\ last = Returned("deleteContentItem", "updated")
  /\ \E s \in Places(boards) :
       /\ TaskAt(boards, s).id = Task1.id
       /\ TaskAt(boards, s).content = << Task1.content[1] >>

(***************************************************************************)
(* C16.  updateBoardTitle and updateBoardColor, called with the id of a    *)
(* board, change the title (the colour) of that board and nothing else;    *)
(* called with an id no board has, they leave every board as it is and do  *)
(* not throw.                                                              *)
(***************************************************************************)
BoardFieldSet(boardId, field, value) ==
  /\ last'.path # "TypeError"
  /\ IF boardId \in BoardIds(boards)
       THEN \E i \in DOMAIN boards :
              /\ boards[i].id = boardId
              /\ boards' = [boards EXCEPT ![i][field] = value]
       ELSE boards' = boards

C16_BoardEditChangesOneBoard ==
  [][ \A boardId \in BoardArgs :
        /\ \A newTitle \in Titles :
             updateBoardTitle(boardId, newTitle)
             => BoardFieldSet(boardId, "title", newTitle)
        /\ \A newColor \in PickedColors :
             updateBoardColor(boardId, newColor)
             => BoardFieldSet(boardId, "color", newColor) ]_vars

\* C16 holds for the title, and for the colour of a board that exists.
C16_ExceptColorOfAbsentBoard ==
  [][ \A boardId \in BoardArgs :
        /\ \A newTitle \in Titles :
             updateBoardTitle(boardId, newTitle)
             => BoardFieldSet(boardId, "title", newTitle)
        /\ \A newColor \in PickedColors :
             boardId \in BoardIds(boards) /\ updateBoardColor(boardId, newColor)
             => BoardFieldSet(boardId, "color", newColor) ]_vars

\* The colour update threw; every board is as it was created.
C16_WitnessTypeError ==
  /\ last = Returned("updateBoardColor", "TypeError")
  /\ \A i \in DOMAIN boards : BoardEdits(boards[i]) = 0

\* The second board was renamed.
C16_WitnessRenamed ==
  /\ last = Returned("updateBoardTitle", "updated")
  /\ boards[2].title \in Titles

\* A rename was asked for a board that is gone.
C16_WitnessRenameNotFound == last = Returned("updateBoardTitle", "board-not-found")

(***************************************************************************)
(* C17.  Every drag gesture ends in Idle: once the drop handlers have run  *)
(* for a release, on whatever path they returned, or the drag was          *)
(* cancelled, draggingBoard is null and dragging is null.                  *)
(***************************************************************************)
C17_DropOrCancelEndsInIdle ==
  gesture # "dragging" => ( dragging = NoDrag /\ draggingBoard = null )

\* The drop handler of a task drag has run and dragging is still the payload.
C17_WitnessStillDragging ==
  /\ gesture = "dropped"
  /\ last = Returned("handleTaskDrop", "setBoards")
  /\ dragging # NoDrag

\* The part of C17 about board drags holds: handleBoardDrop resets
\* draggingBoard on every path.
C17_BoardDropEndsInIdle == gesture # "dragging" => draggingBoard = null

\* Both payloads are null once dragend was handled.
C17_DragEndEndsInIdle ==
  gesture = "none" => ( dragging = NoDrag /\ draggingBoard = null )

\* With dragend delivered, every drag comes to its end.
C17_EveryDragEnds == (gesture # "none") ~> (gesture = "none")

(***************************************************************************)
(* C18.  While a task is dragged, a release over a board outside its task  *)
(* cards is a drop: the board accepts it, and the dragged task with its    *)
(* subtree becomes the last top-level task of that board and leaves the    *)
(* place where it was.                                                     *)
(***************************************************************************)
C18_BoardZoneAcceptsTaskDrop ==
  ( gesture = "dragging" /\ dragging # NoDrag )
  => \A boardId \in BoardIds(boards) : AcceptsDrop([boardId |-> boardId, taskId |-> null])

\* The tree in which the task at s has left its container and is the last
\* top-level task of the i-th board.
MovedToBoardEnd(bs, s, i) ==
  LET appended == [bs EXCEPT ![i].tasks = Append(@, TaskAt(bs, s))]
  IN [appended EXCEPT ![s.b].tasks = RemoveAt(@, s.p)]

\* What handleTaskDrop does when it is called for a board: the second half
\* of C18, in the states in which every id occurs once.
C18_HandlerMovesToBoardEnd ==
  [][ \A boardId \in BoardIds(boards), s \in DraggedPlaces :
        ( UniqueIds(boards) /\ handleTaskDrop(boardId, null) )
        => \E i \in DOMAIN boards :
             /\ boards[i].id = boardId
             /\ boards' = MovedToBoardEnd(boards, s, i) ]_vars

\* A task is dragged and no board outside its cards takes the drop.
C18_WitnessNotAccepted ==
  /\ gesture = "dragging"
  /\ dragging # NoDrag
  /\ \A boardId \in BoardIds(boards) : ~AcceptsDrop([boardId |-> boardId, taskId |-> null])

(***************************************************************************)
(* C19.  A load that follows a save which reported success, with no save   *)
(* in between, returns a tree equal to the saved one: in the browser       *)
(* (localStorage), under Electron (the data file), and under Electron when *)
(* the IPC save failed and saveData fell back to localStorage.  The load   *)
(* itself meets no fault.                                                  *)
(***************************************************************************)
LoadReturnsSaved ==
  \A dialog \in Dialogs :
    exportData({ }, dialog) => ( last'.found /\ last'.value = last.data )

C19_LoadReturnsSavedTree ==
  [][ ( last.op = "saveData" /\ last.result ) => LoadReturnsSaved ]_vars

\* C19 holds when the save went where the load reads: every save but the
\* one that fell back to localStorage under Electron.
C19_WhenSavedWithoutFallback ==
  [][ ( last.op = "saveData" /\ last.result /\ last.path # "fallback-localStorage" )
      => LoadReturnsSaved ]_vars

\* A save fell back to localStorage and reported success, and the file,
\* which the next load reads, holds another tree.
C19_WitnessFallbackSave ==
  /\ last.op = "saveData"
  /\ last.result
  /\ last.path = "fallback-localStorage"
  /\ stored.localStorage.json = last.data
  /\ stored.file.kind = "json"
  /\ stored.file.json # last.data

\* A tree with a nested task was saved to the file and loaded from it.
C19_WitnessFileRoundTrip ==
  /\ stored.isElectron
  /\ last.op = "exportData"
  /\ last.loadPath = "ipc"
  /\ last.value = boards
  /\ \E s \in Places(boards) : Len(s.p) = 2

(***************************************************************************)
(* C20.  At startup, when the store of the running backend holds no data,  *)
(* when reading it throws, or when what it holds cannot be parsed, the     *)
(* boards become the default three boards: not the content of the other    *)
(* store and not an empty tree.                                            *)
(***************************************************************************)
\* The store the backend persists to gives no tree.
NothingToLoad(faults) ==
  IF stored.isElectron
    THEN "invoke" \in faults \/ stored.file.kind # "json"
    ELSE "getItem" \in faults \/ stored.localStorage.kind # "json"

C20_StartupFallsBackToDefaults ==
  [][ \A loadFaults \in SUBSET Faults :
        /\ ( /\ "getItem" \in loadFaults \/ stored.localStorage.kind # "json"
             /\ getInitialBoards(loadFaults) )
           => boards' = DefaultBoards
        /\ \A saveFaults \in SUBSET Faults :
             ( NothingToLoad(loadFaults) /\ initializeBoards(loadFaults, saveFaults) )
             => boards' = DefaultBoards ]_vars

\* C20 holds for the component that reads localStorage itself, and for the
\* storage helper whenever the IPC load does not throw.
C20_WhenLoadDoesNotFallBack ==
  [][ \A loadFaults \in SUBSET Faults :
        /\ ( /\ "getItem" \in loadFaults \/ stored.localStorage.kind # "json"
             /\ getInitialBoards(loadFaults) )
           => boards' = DefaultBoards
        /\ \A saveFaults \in SUBSET Faults :
             ( /\ NothingToLoad(loadFaults)
               /\ ~( stored.isElectron /\ ipcLoadData(stored, loadFaults).threw )
               /\ initializeBoards(loadFaults, saveFaults) )
             => boards' = DefaultBoards ]_vars

\* Under Electron the file could not be read and the boards are what
\* localStorage held.
C20_WitnessStaleStart ==
  /\ stored.isElectron
  /\ last = Returned("initializeBoards", "fallback-localStorage")
  /\ boards = FormerTree

\* The file could not be parsed, localStorage was empty: the default boards.
C20_WitnessDefaults ==
  /\ stored.isElectron
  /\ last = Returned("initializeBoards", "fallback-localStorage-empty")
  /\ boards = DefaultBoards

(***************************************************************************)
(* C21.  When two saves were issued one after the other and both have      *)
(* completed, the stored snapshot (what a load returns) is the tree of the *)
(* second save, also when the first was still in flight when the second    *)
(* was issued.                                                             *)
(***************************************************************************)
\* Every save that was issued has returned true.
SavesCompleted ==
  \A i \in DOMAIN calls : calls[i].pc = "returned" /\ calls[i].result

\* A load that meets no fault returns the tree.
SnapshotIs(tree) ==
  loadData(stored, { }).found /\ loadData(stored, { }).value = tree

C21_LastSaveWins ==
  ( Len(calls) >= 2 /\ SavesCompleted ) => SnapshotIs(calls[Len(calls)].data)

\* C21 holds in the browser, where saveData has written localStorage
\* before it returns to the save effect.
C21_WhenLocalStorage ==
  ( ~stored.isElectron /\ Len(calls) >= 2 /\ SavesCompleted )
  => SnapshotIs(calls[Len(calls)].data)

\* Both saves went to the file and the file holds the tree of the first:
\* its text was written after the text of the second.
C21_WitnessFirstSaveStays ==
  /\ Len(calls) = 2
  /\ \A i \in DOMAIN calls : calls[i] = Call(calls[i].data, "returned", TRUE, "ipc")
  /\ calls[1].data # calls[2].data
  /\ stored.file = JSONStringify(calls[1].data, 2)

\* Both saves went to the file and its text is not JSON: the shorter text
\* was written over the head of the longer one.
C21_WitnessTornFile ==
  /\ Len(calls) = 2
  /\ \A i \in DOMAIN calls : calls[i] = Call(calls[i].data, "returned", TRUE, "ipc")
  /\ stored.file.kind = "corrupt"

\* Two saves completed in the browser, the second with another tree.
C21_WitnessLocalStorage ==
  /\ ~stored.isElectron
  /\ Len(calls) = 2
  /\ SavesCompleted
  /\ calls[1].data # calls[2].data
  /\ SnapshotIs(calls[2].data)

(***************************************************************************)
(* C22.  A save that fails (saveData returns false) leaves the boards of   *)
(* the component as they are: when the failure comes after the render,     *)
(* the boards do not change; when it comes within the save effect of an    *)
(* operation, the boards are the tree of that operation.  The component    *)
(* goes on offering its operations.                                        *)
(***************************************************************************)
\* The i-th call returns false in this step.
FailsNow(i) ==
  /\ calls'[i].pc = "returned"
  /\ ~calls'[i].result
  /\ i \in DOMAIN calls => calls[i].pc # "returned"

C22_FailedSaveKeepsBoards ==
  [][ \A i \in DOMAIN calls' :
        FailsNow(i)
        => /\ boards' = IF i \in DOMAIN calls THEN boards ELSE calls'[i].data
           /\ ~isLoading'
           /\ gesture' = "none" ]_vars

\* Under Electron the save of an operation was rejected and localStorage
\* took nothing either; the boards are the tree of that operation.
C22_Witness ==
  /\ stored.isElectron
  /\ Len(calls) = 2
  /\ calls[2] = Call(calls[2].data, "returned", FALSE, "fallback-localStorage-failed")
  /\ last = Returned("save-data", "rejected")
  /\ boards = calls[2].data
  /\ boards # calls[1].data

\* In the browser the first save failed, and a later operation was taken
\* and saved.
C22_WitnessNextOperation ==
  /\ ~stored.isElectron
  /\ Len(calls) = 2
  /\ ~calls[1].result
  /\ calls[2].result
  /\ boards = calls[2].data
  /\ boards # calls[1].data
  /\ SnapshotIs(boards)

(***************************************************************************)
(* C23.  When the user cancels the file selection, or the chosen file      *)
(* cannot be read or parsed, importData resolves to null: its promise      *)
(* settles and is not rejected, no second file picker opens, and neither   *)
(* the stores nor the boards change.                                       *)
(***************************************************************************)
\* The picker gives no tree: it was closed, or the file chosen cannot be
\* read, or its text is not JSON.
NothingPicked(pick) == pick.kind \in { "cancel", "unreadable", "unparsable" }

\* The picker that opens first: the dialog of the main process under
\* Electron (picked), the file input in the browser (chosen).
FirstPick(picked, chosen) == IF stored.isElectron THEN picked ELSE chosen

ResolvesToNull ==
  /\ last'.settled = "resolved"
  /\ ~last'.found
  /\ last'.pickers = 1
  /\ stored' = stored
  /\ boards' = boards

C23_NothingPickedResolvesNull ==
  [][ \A picked \in Picks, chosen \in Picks, faults \in SUBSET Faults :
        ( NothingPicked(FirstPick(picked, chosen)) /\ importData(picked, chosen, faults) )
        => ResolvesToNull ]_vars

\* What holds of an import that gives no tree: the stores and the boards
\* stay.  (It may open a second picker, stay pending or be rejected.)
C23_NothingImportedNothingChanged ==
  [][ \A picked \in Picks, chosen \in Picks, faults \in SUBSET Faults :
        ( importData(picked, chosen, faults) /\ ~last'.found )
        => ( stored' = stored /\ boards' = boards ) ]_vars

\* importData resolves to null on one path only: the change event of the
\* file input came without a file.
C23_NullOnlyWithoutFile ==
  [][ \A picked \in Picks, chosen \in Picks, faults \in SUBSET Faults :
        ( importData(picked, chosen, faults) /\ last'.settled = "resolved" /\ ~last'.found )
        => chosen.kind = "no-file" ]_vars

\* Under Electron the dialog was cancelled, a file input opened as the
\* second picker and was closed too: the promise stays pending.
C23_WitnessSecondPickerPending ==
  /\ stored.isElectron
  /\ last.op = "importData"
  /\ last.pickers = 2
  /\ last.settled = "pending"

\* In the browser a file whose text is not JSON was chosen: rejected.
C23_WitnessRejected ==
  /\ ~stored.isElectron
  /\ last.op = "importData"
  /\ last.settled = "rejected"

\* A tree was imported.
C23_WitnessImported ==
  /\ last.op = "importData"
  /\ last.found
  /\ boards = FormerTree
  /\ SnapshotIs(FormerTree)

ExportsTheBoards ==
  /\ last'.result # null => last'.document = JSONStringify(boards, 2)
  /\ last'.result = null => last'.path = "cancelled"

C25_ExportWritesTheBoards ==
  [][ \A faults \in SUBSET ExportFaults, dialog \in Dialogs :
        exportData(faults, dialog) => ExportsTheBoards ]_vars

\* What export writes is the stored snapshot: C25 holds when a load gives
\* the boards and the export's own calls meet no fault.
C25_WhenSnapshotIsBoards ==
  [][ \A dialog \in Dialogs :
        ( SnapshotIs(boards) /\ exportData({ }, dialog) ) => ExportsTheBoards ]_vars

\* Whatever the stores hold, the document is the tree a load returns.
C25_ExportWritesTheSnapshot ==
  [][ \A faults \in SUBSET ExportFaults, dialog \in Dialogs :
        exportData(faults, dialog)
        => /\ last'.result # null
              => last'.document = JSONStringify(loadData(stored, faults).value, 2)
           /\ last'.result = null
              => \/ last'.path = "cancelled"
                 \/ ~loadData(stored, faults).found
                 \/ "download" \in faults ]_vars

\* The save of the last operation is in flight and the export wrote the
\* tree of the save before it.
C25_WitnessStaleExport ==
  /\ last.op = "exportData"
  /\ last.result = "filePath"
  /\ Len(calls) = 2
  /\ calls[2].pc = "invoked"
  /\ boards = calls[2].data
  /\ last.document = JSONStringify(calls[1].data, 2)
  /\ calls[1].data # boards

\* The first save is in flight, there is no file yet, and export returned
\* null without a dialog.
C25_WitnessNothingToExport ==
  /\ last.op = "exportData"
  /\ last.path = "no-data"
  /\ last.result = null
  /\ boards = DefaultBoards

(***************************************************************************)
(* C26.  No operation changes the previous snapshot: the array that was    *)
(* boards when updateTaskTitle, setDueDate, updateTaskPriority,            *)
(* addNewTask, deleteTask, addContentItem, deleteContentItem or            *)
(* handleBoardDrop was called reads, after the call, as it read before.    *)
(***************************************************************************)
SnapshotOperations ==
  { "updateTaskTitle", "setDueDate", "updateTaskPriority", "addNewTask",
    "deleteTask", "addContentItem", "deleteContentItem", "handleBoardDrop" }

C26_PreviousSnapshotKept ==
  [][ last'.op \in SnapshotOperations => prevBoards' = boards ]_vars

\* What these operations do instead: they copy the array only, so the
\* previous array reads like the new tree (its tasks are the same objects).
C26_PreviousSnapshotReadsAsNew ==
  [][ last'.op \in SnapshotOperations \ { "handleBoardDrop" } => prevBoards' = boards' ]_vars

\* After a board reorder the previous array keeps its sequence, and its
\* boards are the boards of the new tree, with the new order values.
C26_ReorderRenumbersPreviousSnapshot ==
  [][ last' = Returned("handleBoardDrop", "setBoards")
      => /\ [ i \in DOMAIN prevBoards' |-> prevBoards'[i].id ]
              = [ i \in DOMAIN boards |-> boards[i].id ]
         /\ Range(prevBoards') = Range(boards') ]_vars

\* The operations that build their tree from a copy keep the previous
\* snapshot: the drop of a task works on a JSON copy, deleteBoard filters.
C26_CopyingOperationsKeepSnapshot ==
  [][ last'.op \in { "handleTaskDrop", "deleteBoard", "addNewBoard" }
      => prevBoards' = boards ]_vars

(***************************************************************************)
(* C27.  In the component that loads through the storage helper no save    *)
(* is issued before the load has finished: while isLoading is true no      *)
(* saveData call exists and the stores are not written, so the [] that     *)
(* boards holds meanwhile is never stored.  isLoading becomes false,       *)
(* whether the load resolves or rejects, and at that moment boards is what *)
(* the load returned or, when it returned nothing, the default boards.     *)
(***************************************************************************)
NoSaveWhileLoading == isLoading => ( calls = << >> /\ boards = << >> )

\* A step taken while loading writes no store, but for the step that ends
\* the loading: its save is the save of the boards it has set.
LoadingLeavesTheStores ==
  isLoading
  => /\ \/ stored' = stored
        \/ /\ ~isLoading'
           /\ stored' = [stored EXCEPT !.localStorage = JSONStringify(boards', 0)]
     /\ \A i \in DOMAIN calls' : calls'[i].data = boards'

LoadingEndsWithLoadedOrDefault ==
  ( isLoading /\ ~isLoading' )
  => \E faults \in LoadFaults :
       boards' = IF loadData(stored, faults).found
                   THEN loadData(stored, faults).value
                   ELSE DefaultBoards

C27_NoSaveBeforeLoaded ==
  /\ []NoSaveWhileLoading
  /\ [][LoadingLeavesTheStores /\ LoadingEndsWithLoadedOrDefault]_vars
  /\ <>~isLoading

\* The IPC load was rejected, localStorage held nothing: the load has ended
\* with the default boards, and their save is on its way.
C27_Witness ==
  /\ stored.isElectron
  /\ ~isLoading
  /\ last = Returned("initializeBoards", "fallback-localStorage-empty")
  /\ boards = DefaultBoards
  /\ calls = << Call(DefaultBoards, "invoked", FALSE, "ipc") >>

\* The load has ended with the tree a former run left in the file.
C27_WitnessLoaded ==
  /\ stored.isElectron
  /\ ~isLoading
  /\ last = Returned("initializeBoards", "ipc")
  /\ boards = FormerTree

(***************************************************************************)
(* C28.  At most one drag is in progress: dragging and draggingBoard are   *)
(* never both set.  A drop is applied by one handler: what a drop event    *)
(* does to the state is what handleTaskDrop does for the card it fell on,  *)
(* or what handleBoardDrop does for the board it fell on, and nothing      *)
(* more; a drop on a card is not handled again by the board around it.     *)
(* Drags are as the browser runs them: one at a time, each ended by its    *)
(* dragend.                                                                *)
(***************************************************************************)
AtMostOneDrag == ~( dragging # NoDrag /\ draggingBoard # null )

OneHandlerPerDrop ==
  ( gesture = "dragging" /\ gesture' = "dropped" )
  => \/ \E card \in Cards :
          /\ handleTaskDragOver
          /\ handleTaskDrop(card.boardId, card.taskId)
     \/ \E boardId \in BoardIds(boards) :
          /\ handleBoardDragOver
          /\ handleBoardDrop(boardId)

C28_WitnessBoardDrop ==
  /\ last = Returned("handleBoardDrop", "setBoards")
  /\ gesture = "dropped"
  /\ dragging = NoDrag

(***************************************************************************)
(* C29.  After addNewBoard, whatever additions, deletions and reorders of  *)
(* boards came before, the new board is the last board of the display      *)
(* sequence (the boards sorted by order), and the boards array is in the   *)
(* display sequence.                                                       *)
(***************************************************************************)
C29_NewBoardIsDisplayedLast ==
  [][ \A now \in DateNow, random \in 0..MaxColorIndex :
        addNewBoard(now, random)
        => /\ SortByOrder(boards')[Len(boards')] = boards'[Len(boards')]
           /\ SortByOrder(boards') = boards' ]_vars

\* The order values of the boards are their indexes in the array: so it is
\* until a board is deleted, and again after a board reorder.
OrdersAreIndexes(bs) == \A i \in DOMAIN bs : bs[i].order = i - 1

\* C29 holds when the order values are the indexes before the addition.
C29_WhenOrdersAreIndexes ==
  [][ \A now \in DateNow, random \in 0..MaxColorIndex :
        ( OrdersAreIndexes(boards) /\ addNewBoard(now, random) )
        => /\ SortByOrder(boards')[Len(boards')] = boards'[Len(boards')]
           /\ SortByOrder(boards') = boards' ]_vars

\* A board was added behind a board with a higher order value: it is
\* displayed before that board.
C29_WitnessDisplayedBefore ==
  /\ last = Returned("addNewBoard", "setBoards")
  /\ Len(boards) >= 2
  /\ boards[Len(boards)].order < boards[Len(boards) - 1].order
  /\ sortedBoards[Len(boards)] # boards[Len(boards)]

(***************************************************************************)
(* C30.  A board reorder changes the position of the dragged board only:   *)
(* the other boards stand in the display sequence (the boards sorted by    *)
(* order) in the same relative order before and after handleBoardDrop,     *)
(* also in states reached by deleteBoard and addNewBoard.                  *)
(***************************************************************************)
\* The display sequence of bs without the board at index i of the array,
\* order values aside.
DisplayedWithout(bs, i) ==
  LET sorted == SortByOrder(SpliceOut(bs, i))
  IN [ j \in DOMAIN sorted |-> Unordered(sorted[j]) ]

OthersKeepDisplayOrder(targetBoardId) ==
  DisplayedWithout(boards', IndexOfBoard(boards, targetBoardId))
    = DisplayedWithout(boards, IndexOfBoard(boards, dataTransfer.data))

C30_ReorderMovesOnlyTheSource ==
  [][ \A targetBoardId \in BoardArgs :
        ( /\ ReorderingDrop(targetBoardId)
          /\ handleBoardDrop(targetBoardId) )
        => OthersKeepDisplayOrder(targetBoardId) ]_vars

\* C30 holds when the boards array is in the display sequence before the
\* drop: the reorder is made on the array, not on the display sequence.
C30_WhenArrayIsDisplaySequence ==
  [][ \A targetBoardId \in BoardArgs :
        ( /\ SortByOrder(boards) = boards
          /\ ReorderingDrop(targetBoardId)
          /\ handleBoardDrop(targetBoardId) )
        => OthersKeepDisplayOrder(targetBoardId) ]_vars

\* Three boards whose display sequence is not the array's, one of them
\* dragged: the state in which a drop exchanges the two others on screen.
C30_WitnessArrayNotDisplayed ==
  /\ gesture = "dragging"
  /\ draggingBoard # null
  /\ Len(boards) = 3
  /\ SortByOrder(boards) # boards

====
